---------------------------- MODULE Spec2Model ----------------------------
(***************************************************************************)
(* Kanoon Sathi: the retrieval-augmented query path.                       *)
(*                                                                         *)
(*   - the four corpus retrievers of src/src/tools/retriever.ts and the    *)
(*     similarity searches they call (specification SpecRetriever);        *)
(*   - the classifier detectDocumentType of src/src/utils/env_validator.ts *)
(*     and the request pipeline autonomousAIFlow of src/unnamed/part_005   *)
(*     with the in-memory CHAT_HISTORY table and the persistent chat store *)
(*     of src/unnamed/part_002 (specification Spec).                       *)
(*                                                                         *)
(* Numbers that are fractions in the program (similarity scores and the    *)
(* similarityThreshold option, both in [-1, 1]) are kept in hundredths.    *)
(* An optional value is a sequence: << >> when absent (undefined), <<v>>   *)
(* when present.  Text is a sequence of one-character strings, so that     *)
(* toLowerCase, trim and includes are computed character by character.     *)
(***************************************************************************)
EXTENDS Integers, Sequences, FiniteSets, TLC

VARIABLES
    tables,         \* corpus table name -> set of rows (documents, criminal_code, ...)
    lastCall,       \* the last direct retriever invocation: options, raw rows, result
    req,            \* request slot -> the locals of the autonomousAIFlow run in it
    CHAT_HISTORY,   \* the process-wide Map: chatroomId -> array of turns
    chats,          \* rows of the chats table
    messages,       \* rows of the messages table, in insertion order
    served,         \* number of flow invocations received so far
    journal,        \* history variable: what the finished requests did, per conversation
    flowReply,      \* what the last getChatHistory / getConversationList returned
    conn,           \* the one database connection: its transaction state
    users,          \* rows of the users table
    database,       \* the statics of class Database and the clients it created
    pages           \* the criminal_code table: its rows and the value of its id sequence

(***************************************************************************)
(* Bounds                                                                  *)
(***************************************************************************)
MaxRows == 3        \* passages ingested into each corpus table
MaxRequests == 2    \* requests received in one behaviour

(***************************************************************************)
(* Program constants                                                       *)
(***************************************************************************)
DefaultLimit == 5   \* options?.k || 5
ThresholdMin == 0   \* z.number().min(0)
FlowK == 3          \* autonomousAIFlow retrieves with options { k: 3 }
LegacyK == 2        \* the first autonomousAIFlow retrieved with options { k: 2 }

(***************************************************************************)
(* Optional values and JavaScript truthiness                               *)
(***************************************************************************)
None == << >>
Some(v) == <<v>>
IsSet(o) == o # None

(***************************************************************************)
(* Database.instance is a single pg Client: every Database.query of every  *)
(* caller runs on the same connection, in the order the queries are sent.  *)
(* The connection is outside a transaction ("idle"), inside one ("open",   *)
(* with the rows as they were at BEGIN, to restore on ROLLBACK) or inside  *)
(* one that a failed statement aborted ("aborted").                        *)
(***************************************************************************)
NoTransaction == [status |-> "idle", chats |-> {}, messages |-> << >>, pages |-> {}]

\* CREATE TABLE IF NOT EXISTS criminal_code (id SERIAL PRIMARY KEY, ...): no
\* row, and a sequence that has handed out no id.
NoPages == [rows |-> {}, serial |-> 0]

(***************************************************************************)
(* class Database: the static isInitialized, the static instance (0 while  *)
(* undefined, else the number of the client it refers to), the clients     *)
(* made with new Client(...) in the order they were made, each with its   *)
(* state and the number of statements sent on it, the number of times      *)
(* setupDatabase was started, and how many attempts failed and how many    *)
(* close() calls completed.                                                *)
(***************************************************************************)
Uninitialized ==
    [isInitialized |-> FALSE, instance |-> 0, clients |-> << >>, setups |-> 0,
     failures |-> 0, closes |-> 0]

\* The state the import-time Database.initialize() leaves when nothing overlaps it.
Ready ==
    [isInitialized |-> TRUE, instance |-> 1,
     clients |-> <<[state |-> "connected", sent |-> 1]>>, setups |-> 1,
     failures |-> 0, closes |-> 0]

(***************************************************************************)
(* The journal is not program state.  It remembers, for the claims about   *)
(* sequences of requests, the exchanges of the unauthenticated requests    *)
(* that returned, in the order they returned, and the conversation ids on  *)
(* which some other request (one that failed, or one with a userId) ran.   *)
(***************************************************************************)
NoJournal == [exchanges |-> << >>, disturbed |-> {}]

Disturbed(j, chatroomId) == [j EXCEPT !.disturbed = @ \cup {chatroomId}]

Exchanged(j, chatroomId, text, generated) ==
    [j EXCEPT !.exchanges =
        Append(@, [chatroomId |-> chatroomId, text |-> text, generated |-> generated])]

\* if (x) for an optional number: undefined and 0 are both falsy.
TruthyNum(o) == IsSet(o) /\ o[1] # 0

\* if (x) for an optional object: every object, {} included, is truthy.
TruthyObj(o) == IsSet(o)

\* a || b for an optional number a.
OrElse(o, d) == IF TruthyNum(o) THEN o[1] ELSE d

\* a ?? b for an optional value a.
Nullish(o, d) == IF IsSet(o) THEN o[1] ELSE d

Min(a, b) == IF a <= b THEN a ELSE b

(***************************************************************************)
(* Corpus tables.  similarity_score is the value of the SQL expression     *)
(* 1 - (embedding <=> $1) for the query at hand: cosine distance lies in   *)
(* [0, 2], so the score lies in [-1, 1].                                   *)
(***************************************************************************)
Corpora == {"documents", "criminal_code", "civil_code", "criminal_procedure"}

Scores == {-20, 40, 77, 91}
Pages == {1, 2}
Langs == {"en", "ne"}

\* criminal_code / civil_code / criminal_procedure(page_number, content, embedding, metadata).
PagedRows ==
    [page_number : Pages, metadata : [language : Langs], similarity_score : Scores]

\* documents(content, metadata, embedding) has no page_number column: the
\* documents row of a passage is the passage without it.
AsDocumentRow(row) == [metadata |-> row.metadata, similarity_score |-> row.similarity_score]

BoundedSubsets(S, n) == {T \in SUBSET S : Cardinality(T) <= n}

(***************************************************************************)
(* The options every retriever accepts.                                    *)
(***************************************************************************)
KValues == {None, Some(0), Some(2)}
\* 0 and 0.5, both within the schema's [0, 1].
ThresholdValues == {None, Some(ThresholdMin), Some(50)}
MetadataFilters == {None, Some(<< >>), Some([language |-> "en"])}
PageFilters == {None, Some(0), Some(1)}

allRetrieversOptionsSchema ==
    [k : KValues,
     similarityThreshold : ThresholdValues,
     metadataFilter : MetadataFilters,
     pageFilter : PageFilters]

(***************************************************************************)
(* Similarity search: ORDER BY embedding <=> $1 LIMIT $2.  Rows at the     *)
(* same distance come in an order the database chooses.                    *)
(***************************************************************************)
\* A query without its LIMIT clause.
TakeAll(s, n) == s

Take(s, n) == SubSeq(s, 1, Min(n, Len(s)))

\* embedding <=> $1, the cosine distance of a row to the query, in hundredths:
\* the row's similarity_score column is 1 - (embedding <=> $1).
Distance(row) == 100 - row.similarity_score

\* ORDER BY embedding <=> $1 DESC: the farthest row first.
OrderedByDistanceDescending(T) ==
    {s \in [1..Cardinality(T) -> T] :
        /\ \A i, j \in 1..Cardinality(T) : i # j => s[i] # s[j]
        /\ \A i, j \in 1..Cardinality(T) : i < j => Distance(s[i]) >= Distance(s[j])}

OrderedByDistance(T) ==
    {s \in [1..Cardinality(T) -> T] :
        /\ \A i, j \in 1..Cardinality(T) : i # j => s[i] # s[j]
        /\ \A i, j \in 1..Cardinality(T) : i < j => Distance(s[i]) <= Distance(s[j])}

SearchTable(T, limit) == {Take(s, limit) : s \in OrderedByDistance(T)}

searchVectorDb(limit) == SearchTable(tables["documents"], limit)
searchCriminalCodeDb(limit) == SearchTable(tables["criminal_code"], limit)
searchCivilCodeDb(limit) == SearchTable(tables["civil_code"], limit)
searchCriminalProcedureDb(limit) == SearchTable(tables["criminal_procedure"], limit)

(***************************************************************************)
(* Genkit documents: { ...row.metadata, pageNumber?, similarityScore }.    *)
(***************************************************************************)
Spread(a, b) ==
    [key \in DOMAIN a \cup DOMAIN b |-> IF key \in DOMAIN b THEN b[key] ELSE a[key]]

DocumentFromRow(row) ==
    [metadata |-> Spread(row.metadata, [similarityScore |-> row.similarity_score])]

DocumentFromPagedRow(row) ==
    [metadata |-> Spread(row.metadata,
                         [pageNumber |-> row.page_number,
                          similarityScore |-> row.similarity_score])]

DocumentsFromRows(results) ==
    [i \in 1..Len(results) |-> DocumentFromRow(results[i])]

DocumentsFromPagedRows(results) ==
    [i \in 1..Len(results) |-> DocumentFromPagedRow(results[i])]

(***************************************************************************)
(* The three filter stages as the retrievers write them.                   *)
(***************************************************************************)
RECURSIVE ReverseSeq(_)
ReverseSeq(s) == IF s = << >> THEN << >> ELSE Append(ReverseSeq(Tail(s)), Head(s))

\* A filter that hands back the survivors last-first.
ThresholdStageReversed(documents, options) ==
    LET Keep(doc) == doc.metadata.similarityScore >= Nullish(options.similarityThreshold, 0)
    IN  IF TruthyNum(options.similarityThreshold)
        THEN ReverseSeq(SelectSeq(documents, Keep))
        ELSE ReverseSeq(documents)

\* if (options.similarityThreshold) documents.filter(score >= threshold ?? 0)
ThresholdStage(documents, options) ==
    LET Keep(doc) == doc.metadata.similarityScore >= Nullish(options.similarityThreshold, 0)
    IN  IF TruthyNum(options.similarityThreshold)
        THEN SelectSeq(documents, Keep)
        ELSE documents

\* if (options?.metadataFilter) filter(entries.every(doc.metadata?.[key] === value))
MetadataStage(documents, options) ==
    LET filter == options.metadataFilter[1]
        Keep(doc) == \A key \in DOMAIN filter :
                        key \in DOMAIN doc.metadata /\ doc.metadata[key] = filter[key]
    IN  IF TruthyObj(options.metadataFilter)
        THEN SelectSeq(documents, Keep)
        ELSE documents

\* if (options?.pageFilter) filter(doc.metadata?.pageNumber === options.pageFilter)
PageStage(documents, options) ==
    LET Keep(doc) == /\ "pageNumber" \in DOMAIN doc.metadata
                     /\ doc.metadata.pageNumber = options.pageFilter[1]
    IN  IF TruthyNum(options.pageFilter)
        THEN SelectSeq(documents, Keep)
        ELSE documents

(***************************************************************************)
(* The retrievers: results are the rows the search returned.               *)
(***************************************************************************)
vectorDbRetriever(results, options) ==
    MetadataStage(ThresholdStage(DocumentsFromRows(results), options), options)

criminalCodeRetriever(results, options) ==
    PageStage(ThresholdStage(DocumentsFromPagedRows(results), options), options)

civilCodeRetriever(results, options) ==
    PageStage(ThresholdStage(DocumentsFromPagedRows(results), options), options)

criminalProcedureRetriever(results, options) ==
    PageStage(ThresholdStage(DocumentsFromPagedRows(results), options), options)

NoCall == [retriever |-> "none", options |-> None, results |-> << >>, documents |-> << >>]

(***************************************************************************)
(* Direct invocations of a retriever with any options the schema admits.   *)
(***************************************************************************)
CallVectorDbRetriever ==
    /\ lastCall = NoCall
    /\ \E options \in allRetrieversOptionsSchema :
      \E results \in searchVectorDb(OrElse(options.k, DefaultLimit)) :
        /\ lastCall' = [retriever |-> "vectorDbRetriever", options |-> Some(options),
                        results |-> results,
                        documents |-> vectorDbRetriever(results, options)]
        /\ UNCHANGED <<tables, req, CHAT_HISTORY, chats, messages, served, journal, flowReply, conn,
                     users, database, pages>>

CallCriminalCodeRetriever ==
    /\ lastCall = NoCall
    /\ \E options \in allRetrieversOptionsSchema :
      \E results \in searchCriminalCodeDb(OrElse(options.k, DefaultLimit)) :
        /\ lastCall' = [retriever |-> "criminalCodeRetriever", options |-> Some(options),
                        results |-> results,
                        documents |-> criminalCodeRetriever(results, options)]
        /\ UNCHANGED <<tables, req, CHAT_HISTORY, chats, messages, served, journal, flowReply, conn,
                     users, database, pages>>

CallCivilCodeRetriever ==
    /\ lastCall = NoCall
    /\ \E options \in allRetrieversOptionsSchema :
      \E results \in searchCivilCodeDb(OrElse(options.k, DefaultLimit)) :
        /\ lastCall' = [retriever |-> "civilCodeRetriever", options |-> Some(options),
                        results |-> results,
                        documents |-> civilCodeRetriever(results, options)]
        /\ UNCHANGED <<tables, req, CHAT_HISTORY, chats, messages, served, journal, flowReply, conn,
                     users, database, pages>>

CallCriminalProcedureRetriever ==
    /\ lastCall = NoCall
    /\ \E options \in allRetrieversOptionsSchema :
      \E results \in searchCriminalProcedureDb(OrElse(options.k, DefaultLimit)) :
        /\ lastCall' = [retriever |-> "criminalProcedureRetriever", options |-> Some(options),
                        results |-> results,
                        documents |-> criminalProcedureRetriever(results, options)]
        /\ UNCHANGED <<tables, req, CHAT_HISTORY, chats, messages, served, journal, flowReply, conn,
                     users, database, pages>>

\* The caller takes the documents; the retriever is free for the next invocation.
ReturnDocuments ==
    /\ lastCall # NoCall
    /\ lastCall' = NoCall
    /\ UNCHANGED <<tables, req, CHAT_HISTORY, chats, messages, served, journal, flowReply, conn,
                     users, database, pages>>

\* At most MaxRows passages have been ingested, each into every corpus table.
InitRetriever ==
    /\ \E T \in BoundedSubsets(PagedRows, MaxRows) :
          tables = [c \in Corpora |->
                      IF c = "documents" THEN {AsDocumentRow(row) : row \in T} ELSE T]
    /\ lastCall = NoCall
    /\ req = << >>
    /\ CHAT_HISTORY = << >>
    /\ chats = {}
    /\ messages = << >>
    /\ served = 0
    /\ journal = NoJournal
    /\ flowReply = None
    /\ conn = NoTransaction
    /\ users = {}
    /\ database = Ready
    /\ pages = NoPages

NextRetriever ==
    \/ CallVectorDbRetriever
    \/ CallCriminalCodeRetriever
    \/ CallCivilCodeRetriever
    \/ CallCriminalProcedureRetriever
    \/ ReturnDocuments

vars ==
    <<tables, lastCall, req, CHAT_HISTORY, chats, messages, served, journal, flowReply, conn,
      users, database, pages>>

SpecRetriever == InitRetriever /\ [][NextRetriever]_vars

(***************************************************************************)
(* Retriever claims, stated over the last retriever invocation.            *)
(***************************************************************************)
Called == lastCall # NoCall
CallOptions == lastCall.options[1]
DocIndices == 1..Len(lastCall.documents)
Table(retriever) ==
    CASE retriever = "vectorDbRetriever" -> tables["documents"]
      [] retriever = "criminalCodeRetriever" -> tables["criminal_code"]
      [] retriever = "civilCodeRetriever" -> tables["civil_code"]
      [] retriever = "criminalProcedureRetriever" -> tables["criminal_procedure"]

\* A returned document carries exactly the data of a given search row.
Matches(doc, row) ==
    /\ doc.metadata.similarityScore = row.similarity_score
    /\ doc.metadata.language = row.metadata.language
    /\ "page_number" \in DOMAIN row =>
          "pageNumber" \in DOMAIN doc.metadata /\ doc.metadata.pageNumber = row.page_number

ScoresOf(docs) == [i \in 1..Len(docs) |-> docs[i].metadata.similarityScore]
RowScores(rows) == [i \in 1..Len(rows) |-> rows[i].similarity_score]

\* C1: with similarityThreshold = t set (t = 0 included), every returned passage
\* has similarityScore >= t; raw scores [0.91, 0.77, 0.40] with t = 0.5 give
\* exactly [0.91, 0.77].
C1_ThresholdRespected ==
    Called /\ IsSet(CallOptions.similarityThreshold) =>
        /\ \A i \in DocIndices :
              lastCall.documents[i].metadata.similarityScore
                  >= CallOptions.similarityThreshold[1]
        /\ ( /\ RowScores(lastCall.results) = <<91, 77, 40>>
             /\ CallOptions.similarityThreshold = Some(50)
             /\ ~IsSet(CallOptions.metadataFilter)
             /\ ~IsSet(CallOptions.pageFilter) )
           => ScoresOf(lastCall.documents) = <<91, 77>>

\* C2: with metadataFilter = {k: v} set, every passage returned by any of the
\* four retrievers has metadata[k] = v for every key of the filter.
C2_MetadataFilterRespected ==
    Called /\ IsSet(CallOptions.metadataFilter) =>
        \A i \in DocIndices :
           \A key \in DOMAIN CallOptions.metadataFilter[1] :
              /\ key \in DOMAIN lastCall.documents[i].metadata
              /\ lastCall.documents[i].metadata[key] = CallOptions.metadataFilter[1][key]

\* C3: with pageFilter = p set, every returned passage has page-number metadata
\* p; with pageFilter unset (and no other filter set) nothing is removed.
C3_PageFilterRespected ==
    Called =>
        /\ IsSet(CallOptions.pageFilter) =>
              \A i \in DocIndices :
                 /\ "pageNumber" \in DOMAIN lastCall.documents[i].metadata
                 /\ lastCall.documents[i].metadata.pageNumber = CallOptions.pageFilter[1]
        /\ ( /\ ~IsSet(CallOptions.pageFilter)
             /\ ~IsSet(CallOptions.similarityThreshold)
             /\ ~IsSet(CallOptions.metadataFilter) )
           => Len(lastCall.documents) = Len(lastCall.results)

\* C4: the returned sequence is a subsequence of the raw search result: same
\* relative order, nothing added, nothing duplicated.
C4_FilteringNeverReorders ==
    Called =>
        \E f \in [DocIndices -> 1..Len(lastCall.results)] :
           /\ \A i, j \in DocIndices : i < j => f[i] < f[j]
           /\ \A i \in DocIndices : Matches(lastCall.documents[i], lastCall.results[f[i]])

\* A retriever dropped a passage and returned at least two others.
C4_Witness ==
    /\ Called
    /\ Len(lastCall.documents) >= 2
    /\ Len(lastCall.documents) < Len(lastCall.results)
    /\ lastCall.documents[1] # lastCall.documents[2]

\* What the options ask of a row: every filter that is set, and only those.
PassesEverySetFilter(row, options) ==
    /\ IsSet(options.similarityThreshold) =>
          row.similarity_score >= options.similarityThreshold[1]
    /\ IsSet(options.metadataFilter) =>
          \A key \in DOMAIN options.metadataFilter[1] :
             key \in DOMAIN row.metadata
             /\ row.metadata[key] = options.metadataFilter[1][key]
    /\ IsSet(options.pageFilter) =>
          "page_number" \in DOMAIN row /\ row.page_number = options.pageFilter[1]

RequestedLimit(options) == IF IsSet(options.k) THEN options.k[1] ELSE DefaultLimit

\* C5: the result is exactly the raw search passages (limit = options.k, or 5
\* when k is absent) that pass every filter that is set.
C5_ExactlyTheSurvivors ==
    Called =>
        LET Survives(row) == PassesEverySetFilter(row, CallOptions)
            expected == SelectSeq(lastCall.results, Survives)
        IN  /\ Len(lastCall.results)
                 = Min(RequestedLimit(CallOptions), Cardinality(Table(lastCall.retriever)))
            /\ Len(lastCall.documents) = Len(expected)
            /\ \A i \in DocIndices : Matches(lastCall.documents[i], expected[i])

(***************************************************************************)
(* Text, character by character.                                           *)
(***************************************************************************)
Alphabet ==
    {<<"A", "a">>, <<"B", "b">>, <<"C", "c">>, <<"D", "d">>, <<"E", "e">>,
     <<"F", "f">>, <<"G", "g">>, <<"H", "h">>, <<"I", "i">>, <<"J", "j">>,
     <<"K", "k">>, <<"L", "l">>, <<"M", "m">>, <<"N", "n">>, <<"O", "o">>,
     <<"P", "p">>, <<"Q", "q">>, <<"R", "r">>, <<"S", "s">>, <<"T", "t">>,
     <<"U", "u">>, <<"V", "v">>, <<"W", "w">>, <<"X", "x">>, <<"Y", "y">>,
     <<"Z", "z">>}

Whitespace == {" ", "\n", "\t"}

LowerChar(c) ==
    IF \E pair \in Alphabet : pair[1] = c
    THEN (CHOOSE pair \in Alphabet : pair[1] = c)[2]
    ELSE c

\* String.prototype.toLowerCase
toLowerCase(text) == [i \in 1..Len(text) |-> LowerChar(text[i])]

\* String.prototype.trim
RECURSIVE TrimStart(_)
TrimStart(text) ==
    IF text # << >> /\ Head(text) \in Whitespace THEN TrimStart(Tail(text)) ELSE text

RECURSIVE TrimEnd(_)
TrimEnd(text) ==
    IF text # << >> /\ text[Len(text)] \in Whitespace
    THEN TrimEnd(SubSeq(text, 1, Len(text) - 1))
    ELSE text

trim(text) == TrimEnd(TrimStart(text))

\* String.prototype.includes
includes(text, word) ==
    \E start \in 1..(Len(text) - Len(word) + 1) :
        SubSeq(text, start, start + Len(word) - 1) = word

W_criminal == <<"c", "r", "i", "m", "i", "n", "a", "l">>
W_procedure == <<"p", "r", "o", "c", "e", "d", "u", "r", "e">>
W_civil == <<"c", "i", "v", "i", "l">>
W_constitution == <<"c", "o", "n", "s", "t", "i", "t", "u", "t", "i", "o", "n">>

(***************************************************************************)
(* detectDocumentType: what the classifier model may answer, and the tag   *)
(* the answer is mapped to.                                                *)
(***************************************************************************)
ClassifierResponses ==
    { << >>,
      <<" ">>,
      <<"n", "o", "n", "e">>,
      <<"p", "r", "o", "c", "e", "d", "u", "r", "e">>,
      <<"c", "o", "n", "s", "t", "i", "t", "u", "t", "i", "o", "n">>,
      <<"C", "i", "v", "i", "l", "\n">>,
      <<"c", "r", "i", "m", "i", "n", "a", "l">>,
      <<"c", "r", "i", "m", "i", "n", "a", "l", "_", "p", "r", "o", "c", "e", "d", "u", "r", "e">>,
      <<"P", "R", "O", "C", "E", "D", "U", "R", "E", " ", "(", "C", "r", "i", "m", "i", "n", "a", "l", ")">> }

\* The branch order a classifier written criminal-first would have.
detectDocumentTypeCriminalFirst(text) ==
    LET lowered == trim(toLowerCase(text))
        documentType == IF lowered # << >> THEN lowered ELSE W_constitution
    IN  IF includes(documentType, W_criminal) THEN "criminal"
        ELSE IF includes(documentType, W_criminal) /\ includes(documentType, W_procedure)
             THEN "criminal_procedure"
        ELSE IF includes(documentType, W_civil) THEN "civil"
        ELSE IF includes(documentType, W_constitution) THEN "constitution"
        ELSE "none"

\* response.text?.toLowerCase().trim() || "constitution", then the if-chain.
detectDocumentType(text) ==
    LET lowered == trim(toLowerCase(text))
        documentType == IF lowered # << >> THEN lowered ELSE W_constitution
    IN  IF includes(documentType, W_criminal) /\ includes(documentType, W_procedure)
        THEN "criminal_procedure"
        ELSE IF includes(documentType, W_criminal) THEN "criminal"
        ELSE IF includes(documentType, W_civil) THEN "civil"
        ELSE IF includes(documentType, W_constitution) THEN "constitution"
        ELSE "none"

\* A switch with the criminal and civil cases exchanged.
getDocumentRetrieverSwapped(documentType) ==
    CASE documentType = "criminal" -> "civilCodeRetriever"
      [] documentType = "civil" -> "criminalCodeRetriever"
      [] documentType = "criminal_procedure" -> "criminalProcedureRetriever"
      [] documentType = "constitution" -> "vectorDbRetriever"
      [] OTHER -> "null"

\* The switch of getDocumentRetriever; "null" when no retriever is selected.
getDocumentRetriever(documentType) ==
    CASE documentType = "criminal" -> "criminalCodeRetriever"
      [] documentType = "civil" -> "civilCodeRetriever"
      [] documentType = "criminal_procedure" -> "criminalProcedureRetriever"
      [] documentType = "constitution" -> "vectorDbRetriever"
      [] OTHER -> "null"

(***************************************************************************)
(* ai.retrieve({ retriever, query, options: { k: 3 } })                    *)
(***************************************************************************)
FlowOptions ==
    [k |-> Some(FlowK), similarityThreshold |-> None, metadataFilter |-> None,
     pageFilter |-> None]

Retrieve(retriever) ==
    CASE retriever = "vectorDbRetriever" ->
            {vectorDbRetriever(results, FlowOptions) :
                results \in searchVectorDb(OrElse(FlowOptions.k, DefaultLimit))}
      [] retriever = "criminalCodeRetriever" ->
            {criminalCodeRetriever(results, FlowOptions) :
                results \in searchCriminalCodeDb(OrElse(FlowOptions.k, DefaultLimit))}
      [] retriever = "civilCodeRetriever" ->
            {civilCodeRetriever(results, FlowOptions) :
                results \in searchCivilCodeDb(OrElse(FlowOptions.k, DefaultLimit))}
      [] retriever = "criminalProcedureRetriever" ->
            {criminalProcedureRetriever(results, FlowOptions) :
                results \in searchCriminalProcedureDb(OrElse(FlowOptions.k, DefaultLimit))}

(***************************************************************************)
(* The in-memory table.                                                    *)
(***************************************************************************)
\* CHAT_HISTORY.get(id) || []
HistoryOf(history, id) == IF id \in DOMAIN history THEN history[id] ELSE << >>

\* A set that forgets the spread of the turns already there.
OverwriteTurn(history, id, turn) ==
    [key \in DOMAIN history \cup {id} |-> IF key = id THEN <<turn>> ELSE history[key]]

\* CHAT_HISTORY.set(id, [...(CHAT_HISTORY.get(id) || []), turn])
AppendTurn(history, id, turn) ==
    [key \in DOMAIN history \cup {id} |->
        IF key = id THEN Append(HistoryOf(history, id), turn) ELSE history[key]]

Turn(role, text) == [role |-> role, content |-> <<[text |-> text]>>]

\* msg.content.map((part) => part.text).join(" ")
RECURSIVE JoinTexts(_)
JoinTexts(parts) ==
    IF Len(parts) = 0 THEN ""
    ELSE IF Len(parts) = 1 THEN parts[1].text
    ELSE parts[1].text \o " " \o JoinTexts(Tail(parts))

\* A getChatHistory that lists the newest turn first.
getChatHistoryNewestFirst(history, chatroomId) ==
    LET chatHistory == HistoryOf(history, chatroomId)
    IN  [i \in 1..Len(chatHistory) |->
            [role |-> chatHistory[Len(chatHistory) + 1 - i].role,
             content |-> JoinTexts(chatHistory[Len(chatHistory) + 1 - i].content)]]

\* getChatHistory: (CHAT_HISTORY.get(chatroomId) || []).map(msg => ({ role, content }))
getChatHistory(history, chatroomId) ==
    LET chatHistory == HistoryOf(history, chatroomId)
    IN  [i \in 1..Len(chatHistory) |->
            [role |-> chatHistory[i].role, content |-> JoinTexts(chatHistory[i].content)]]

\* getConversationList: one entry per key of the Map with its last message,
\* { role: "user", content: "" } when there is none.  The entries are kept as a
\* set: the order of the keys of the Map is not part of this model.
getConversationList(history) ==
    {[chatroomId |-> chatroomId,
      lastMessage |->
          IF Len(history[chatroomId]) > 0
          THEN getChatHistory(history, chatroomId)[Len(history[chatroomId])]
          ELSE [role |-> "user", content |-> ""]] : chatroomId \in DOMAIN history}

(***************************************************************************)
(* ChatService over the chats and messages tables.                         *)
(***************************************************************************)
GeneratedIds == <<"uuid-1", "uuid-2", "uuid-3", "uuid-4">>

\* gen_random_uuid(): an id no chat has had.
NewChatId(n) == GeneratedIds[n]

\* SELECT ... FROM chats WHERE id = $1 AND user_id = $2
getChatById(chatId, userId) == {c \in chats : c.id = chatId /\ c.user_id = userId}

\* INSERT INTO chats (user_id, title) VALUES ($1, $2) RETURNING ...
createChat(userId, title) ==
    [id |-> NewChatId(Cardinality({c \in chats : c.generated}) + 1), user_id |-> userId,
     title |-> title, updated |-> 0, generated |-> TRUE]

\* refinedPrompt.substring(0, 50) + "..." (every prompt here is shorter than 50)
TitleOf(refinedPrompt) == <<refinedPrompt, "...">>

\* The rows after addMessage commits: the message inserted, updated_at bumped.
ChatsAfterAddMessage(chatId) ==
    {IF c.id = chatId THEN [c EXCEPT !.updated = 1] ELSE c : c \in chats}

MessagesAfterAddMessage(chatId, sender, content) ==
    Append(messages, [chat_id |-> chatId, sender |-> sender, content |-> content])

\* SELECT ... FROM messages WHERE chat_id = $1 ORDER BY created_at ASC, as turns.
PersistedTurns(rows, chatId) ==
    LET ofChat == SelectSeq(rows, LAMBDA m : m.chat_id = chatId)
    IN  [i \in 1..Len(ofChat) |-> Turn(ofChat[i].sender, ofChat[i].content)]

(***************************************************************************)
(* autonomousAIFlow, one action per await that completes; each action runs *)
(* the code up to the next await.                                          *)
(***************************************************************************)
Texts == {"Hello", "theft law"}
GrammarTexts == {"", "Theft law."}
GeneratedTexts == {"", "Hi"}
ChatroomIds == {"c1", "c2"}
UserIds == {"u1"}
Fallback == "No response generated."

Slots == DOMAIN req
Authenticated(r) == IsSet(r.userId) /\ r.userId[1] # "" /\ r.chatroomId # ""

Idle ==
    [pc |-> "idle", text |-> "", chatroomId |-> "", userId |-> None,
     refinedPrompt |-> "", response |-> None, documentType |-> "", selectedRetriever |-> "",
     docs |-> << >>, generateCall |-> None, responseText |-> None, returned |-> None,
     failedAt |-> "", retrieveCalls |-> 0, storeCalls |-> 0, memoryTouched |-> FALSE,
     historyBefore |-> << >>, grammarCalls |-> 0, classifyCalls |-> 0, generateCalls |-> 0,
     swallowed |-> 0, persistedBefore |-> << >>]

FlowFrame == UNCHANGED <<tables, lastCall, conn, users, database, pages>>

\* The request throws out of the flow at the given stage.
Fail(s, stage) ==
    /\ req' = [req EXCEPT ![s].pc = "failed", ![s].failedAt = stage, ![s].response = None]
    /\ journal' = Disturbed(journal, req[s].chatroomId)
    /\ UNCHANGED <<CHAT_HISTORY, chats, messages, served, flowReply>>
    /\ FlowFrame

\* const response = await ai.generate({ ..., messages: userId ? [] : CHAT_HISTORY.get(...) || [] })
GenerateCall(r, history) ==
    Some([docs |-> r.docs,
          messages |-> IF IsSet(r.userId) /\ r.userId[1] # ""
                       THEN << >>
                       ELSE HistoryOf(history, r.chatroomId)])

\* A flow that read the conversation's turns when the request came in and
\* writes that list back with its own turn added.
AfterRetrievalStale(s, r) ==
    IF Authenticated(r)
    THEN /\ req' = [req EXCEPT ![s] = [r EXCEPT !.pc = "getChat",
                                                !.storeCalls = r.storeCalls + 1]]
         /\ UNCHANGED CHAT_HISTORY
    ELSE LET stale == [key \in DOMAIN CHAT_HISTORY \cup {r.chatroomId} |->
                          IF key = r.chatroomId THEN r.historyBefore ELSE CHAT_HISTORY[key]]
             history == AppendTurn(stale, r.chatroomId, Turn("user", r.text))
         IN  /\ CHAT_HISTORY' = history
             /\ req' = [req EXCEPT ![s] = [r EXCEPT !.pc = "generate",
                                                    !.memoryTouched = TRUE,
                                                    !.generateCalls = r.generateCalls + 1,
                                                    !.generateCall = GenerateCall(r, history)]]

\* Lines 155-189 up to the first await: the authenticated branch awaits
\* ChatService.getChatById, the other appends the user turn and calls generate.
AfterRetrieval(s, r) ==
    IF Authenticated(r)
    THEN /\ req' = [req EXCEPT ![s] = [r EXCEPT !.pc = "getChat",
                                                !.storeCalls = r.storeCalls + 1]]
         /\ UNCHANGED CHAT_HISTORY
    ELSE LET history == AppendTurn(CHAT_HISTORY, r.chatroomId, Turn("user", r.text))
         IN  /\ CHAT_HISTORY' = history
             /\ req' = [req EXCEPT ![s] = [r EXCEPT !.pc = "generate",
                                                    !.memoryTouched = TRUE,
                                                    !.generateCalls = r.generateCalls + 1,
                                                    !.generateCall = GenerateCall(r, history)]]

\* The flow is invoked: const refinedPrompt = await correctGrammar(prompt)
ReceiveFrom(s, texts, chatroomIds, userIds) ==
    /\ req[s].pc \in {"idle", "done", "failed"}
    /\ served < MaxRequests
    /\ \E text \in texts, chatroomId \in chatroomIds, userId \in userIds :
          /\ req' = [req EXCEPT ![s] =
                       [Idle EXCEPT !.pc = "grammar", !.text = text, !.grammarCalls = 1,
                                    !.chatroomId = chatroomId, !.userId = userId,
                                    !.historyBefore = HistoryOf(CHAT_HISTORY, chatroomId),
                                    !.persistedBefore = PersistedTurns(messages, chatroomId)]]
          /\ journal' = IF IsSet(userId) THEN Disturbed(journal, chatroomId) ELSE journal
    /\ served' = served + 1
    /\ UNCHANGED <<CHAT_HISTORY, chats, messages, flowReply>>
    /\ FlowFrame

\* Any client, with or without a userId, on any conversation.
Receive(s) ==
    ReceiveFrom(s, Texts, ChatroomIds, {None} \cup {Some(u) : u \in UserIds})

\* correctGrammar returns response.text || text; detectDocumentType is called.
GrammarReturns(s) ==
    /\ req[s].pc = "grammar"
    /\ \E corrected \in GrammarTexts :
          req' = [req EXCEPT ![s].pc = "classify",
                             ![s].classifyCalls = req[s].classifyCalls + 1,
                             ![s].refinedPrompt =
                                 IF corrected # "" THEN corrected ELSE req[s].text]
    /\ UNCHANGED <<CHAT_HISTORY, chats, messages, served, journal, flowReply>>
    /\ FlowFrame

GrammarThrows(s) ==
    /\ req[s].pc = "grammar"
    /\ Fail(s, "grammar")

\* The classifier answers; getDocumentRetriever picks the retriever and the
\* flow either awaits ai.retrieve or goes on with docs = [].
ClassifyReturns(s) ==
    /\ req[s].pc = "classify"
    /\ \E text \in ClassifierResponses :
          LET documentType == detectDocumentType(text)
              selected == getDocumentRetriever(documentType)
              r == [req[s] EXCEPT !.response = Some(text),
                                  !.documentType = documentType,
                                  !.selectedRetriever = selected]
          IN  IF selected # "null"
              THEN /\ req' = [req EXCEPT ![s] = [r EXCEPT !.pc = "retrieve",
                                                          !.retrieveCalls = r.retrieveCalls + 1]]
                   /\ UNCHANGED CHAT_HISTORY
              ELSE AfterRetrieval(s, r)
    /\ UNCHANGED <<chats, messages, served, journal, flowReply>>
    /\ FlowFrame

\* ai.generate inside detectDocumentType rejects; nothing catches it.
ClassifyThrows(s) ==
    /\ req[s].pc = "classify"
    /\ Fail(s, "classify")

\* docs = await ai.retrieve(...)
RetrieveReturns(s) ==
    /\ req[s].pc = "retrieve"
    /\ \E docs \in Retrieve(req[s].selectedRetriever) :
          AfterRetrieval(s, [req[s] EXCEPT !.docs = docs, !.response = None])
    /\ UNCHANGED <<chats, messages, served, journal, flowReply>>
    /\ FlowFrame

\* A flow that calls ai.retrieve a second time when the first call rejects.
RetrieveThrowsRetried(s) ==
    /\ req[s].pc = "retrieve"
    /\ IF req[s].retrieveCalls < 2
       THEN /\ req' = [req EXCEPT ![s].retrieveCalls = req[s].retrieveCalls + 1]
            /\ UNCHANGED <<CHAT_HISTORY, chats, messages, served, journal, flowReply>>
            /\ FlowFrame
       ELSE Fail(s, "retrieve")

RetrieveThrows(s) ==
    /\ req[s].pc = "retrieve"
    /\ Fail(s, "retrieve")

\* Leaving the try block of lines 157-173, normally or through its catch.
ToGenerate(s, r) ==
    req' = [req EXCEPT ![s] = [r EXCEPT !.pc = "generate",
                                        !.generateCalls = r.generateCalls + 1,
                                        !.generateCall = GenerateCall(r, CHAT_HISTORY)]]

\* let chat = await ChatService.getChatById(chatroomId, userId)
GetChatReturns(s) ==
    /\ req[s].pc = "getChat"
    /\ LET r == [req[s] EXCEPT !.response = None, !.storeCalls = req[s].storeCalls + 1]
       IN  IF getChatById(r.chatroomId, r.userId[1]) = {}
           THEN req' = [req EXCEPT ![s] = [r EXCEPT !.pc = "createChat"]]
           ELSE req' = [req EXCEPT ![s] = [r EXCEPT !.pc = "addUserMessage"]]
    /\ UNCHANGED <<CHAT_HISTORY, chats, messages, served, journal, flowReply>>
    /\ FlowFrame

\* chat = await ChatService.createChat(userId, { title })
CreateChatReturns(s) ==
    /\ req[s].pc = "createChat"
    /\ chats' = chats \cup {createChat(req[s].userId[1], TitleOf(req[s].refinedPrompt))}
    /\ req' = [req EXCEPT ![s].pc = "addUserMessage",
                          ![s].storeCalls = req[s].storeCalls + 1]
    /\ UNCHANGED <<CHAT_HISTORY, messages, served, journal, flowReply>>
    /\ FlowFrame

\* await ChatService.addMessage(chatroomId, userId, { content: prompt, sender: "user" })
AddUserMessageReturns(s) ==
    /\ req[s].pc = "addUserMessage"
    /\ getChatById(req[s].chatroomId, req[s].userId[1]) # {}
    /\ chats' = ChatsAfterAddMessage(req[s].chatroomId)
    /\ messages' = MessagesAfterAddMessage(req[s].chatroomId, "user", req[s].text)
    /\ ToGenerate(s, req[s])
    /\ UNCHANGED <<CHAT_HISTORY, served, journal, flowReply>>
    /\ FlowFrame

\* A ChatService call of the try block rejects (a query error, or addMessage's
\* "Chat not found or access denied"); the catch logs it and the flow goes on.
SaveUserMessageThrows(s) ==
    /\ req[s].pc \in {"getChat", "createChat", "addUserMessage"}
    /\ ToGenerate(s, [req[s] EXCEPT !.response = None, !.swallowed = req[s].swallowed + 1])
    /\ UNCHANGED <<CHAT_HISTORY, chats, messages, served, journal, flowReply>>
    /\ FlowFrame

\* Lines 191-209 for a response that needs no await: the in-memory branch.
Finish(s, r, text) ==
    req' = [req EXCEPT ![s] = [r EXCEPT !.pc = "done",
                                        !.returned = Some(IF text # "" THEN text ELSE Fallback)]]

\* const response = await ai.generate(...)
GenerateReturns(s) ==
    /\ req[s].pc = "generate"
    /\ \E text \in GeneratedTexts :
          LET r == [req[s] EXCEPT !.responseText = Some(text)]
          IN  IF Authenticated(r) /\ text # ""
              THEN /\ req' = [req EXCEPT ![s] = [r EXCEPT !.pc = "addModelMessage",
                                                          !.storeCalls = r.storeCalls + 1]]
                   /\ UNCHANGED <<CHAT_HISTORY, journal>>
              ELSE /\ CHAT_HISTORY' = AppendTurn(CHAT_HISTORY, r.chatroomId, Turn("model", text))
                   /\ Finish(s, [r EXCEPT !.memoryTouched = TRUE], text)
                   /\ journal' = IF IsSet(r.userId) THEN journal
                                  ELSE Exchanged(journal, r.chatroomId, r.text, text)
    /\ UNCHANGED <<chats, messages, served, flowReply>>
    /\ FlowFrame

GenerateThrows(s) ==
    /\ req[s].pc = "generate"
    /\ Fail(s, "generate")

\* await ChatService.addMessage(chatroomId, userId, { content: response.text, sender: "model" })
AddModelMessageReturns(s) ==
    /\ req[s].pc = "addModelMessage"
    /\ getChatById(req[s].chatroomId, req[s].userId[1]) # {}
    /\ chats' = ChatsAfterAddMessage(req[s].chatroomId)
    /\ messages' = MessagesAfterAddMessage(req[s].chatroomId, "model", req[s].responseText[1])
    /\ Finish(s, req[s], req[s].responseText[1])
    /\ UNCHANGED <<CHAT_HISTORY, served, journal, flowReply>>
    /\ FlowFrame

\* addMessage rejects; the catch logs it and the flow returns the text.
AddModelMessageThrows(s) ==
    /\ req[s].pc = "addModelMessage"
    /\ Finish(s, [req[s] EXCEPT !.swallowed = req[s].swallowed + 1], req[s].responseText[1])
    /\ UNCHANGED <<CHAT_HISTORY, chats, messages, served, journal, flowReply>>
    /\ FlowFrame

(***************************************************************************)
(* The two read flows of the flow server.                                  *)
(***************************************************************************)
GetChatHistory ==
    /\ served < MaxRequests
    /\ \E chatroomId \in ChatroomIds :
          flowReply' = Some(getChatHistory(CHAT_HISTORY, chatroomId))
    /\ served' = served + 1
    /\ UNCHANGED <<req, CHAT_HISTORY, chats, messages, journal>>
    /\ FlowFrame

GetConversationList ==
    /\ served < MaxRequests
    /\ flowReply' = Some(getConversationList(CHAT_HISTORY))
    /\ served' = served + 1
    /\ UNCHANGED <<req, CHAT_HISTORY, chats, messages, journal>>
    /\ FlowFrame

(***************************************************************************)
(* Spec: the flow server handling one request at a time.                   *)
(***************************************************************************)
FlowTables ==
    [c \in Corpora |->
        CASE c = "documents" ->
                {[metadata |-> [language |-> "en"], similarity_score |-> 91]}
          [] c = "criminal_code" ->
                {[page_number |-> 1, metadata |-> [language |-> "en"], similarity_score |-> 77],
                 [page_number |-> 2, metadata |-> [language |-> "en"], similarity_score |-> 40]}
          [] c = "civil_code" ->
                {[page_number |-> 2, metadata |-> [language |-> "ne"], similarity_score |-> 77]}
          [] c = "criminal_procedure" ->
                {[page_number |-> 1, metadata |-> [language |-> "ne"], similarity_score |-> 40]}]

\* A chat the user created earlier through POST /api/chats, or none.
InitialChats ==
    { {},
      {[id |-> "c1", user_id |-> "u1", title |-> <<"Hello", "">>, updated |-> 0,
        generated |-> FALSE]} }

Init ==
    /\ tables = FlowTables
    /\ lastCall = NoCall
    /\ req = [s \in {1} |-> Idle]
    /\ CHAT_HISTORY = << >>
    /\ chats \in InitialChats
    /\ messages = << >>
    /\ served = 0
    /\ journal = NoJournal
    /\ flowReply = None
    /\ conn = NoTransaction
    /\ users = {}
    /\ database = Ready
    /\ pages = NoPages

Next ==
    \/ \E s \in Slots : Receive(s)
    \/ \E s \in Slots : GrammarReturns(s)
    \/ \E s \in Slots : GrammarThrows(s)
    \/ \E s \in Slots : ClassifyReturns(s)
    \/ \E s \in Slots : ClassifyThrows(s)
    \/ \E s \in Slots : RetrieveReturns(s)
    \/ \E s \in Slots : RetrieveThrows(s)
    \/ \E s \in Slots : GetChatReturns(s)
    \/ \E s \in Slots : CreateChatReturns(s)
    \/ \E s \in Slots : AddUserMessageReturns(s)
    \/ \E s \in Slots : SaveUserMessageThrows(s)
    \/ \E s \in Slots : GenerateReturns(s)
    \/ \E s \in Slots : GenerateThrows(s)
    \/ \E s \in Slots : AddModelMessageReturns(s)
    \/ \E s \in Slots : AddModelMessageThrows(s)
    \/ GetChatHistory
    \/ GetConversationList

Spec == Init /\ [][Next]_vars

(***************************************************************************)
(* SpecLegacy: the first autonomousAIFlow of src/src/index.ts (lines       *)
(* 41-69): retrieve from the documents corpus, generate, return            *)
(* response.message?.content || "No response generated.".                  *)
(***************************************************************************)
LegacyOptions ==
    [k |-> Some(LegacyK), similarityThreshold |-> None, metadataFilter |-> None,
     pageFilter |-> None]

LegacyRetrieve ==
    {vectorDbRetriever(results, LegacyOptions) :
        results \in searchVectorDb(OrElse(LegacyOptions.k, DefaultLimit))}

\* response.message?.content: undefined when the response has no message,
\* otherwise the array of parts of the model's message.
GeneratedContents ==
    {None, Some(<< >>), Some(<<[text |-> ""]>>), Some(<<[text |-> "Hi"]>>)}

\* response.text: the text parts of the message concatenated, "" without a message.
RECURSIVE ConcatTexts(_)
ConcatTexts(parts) ==
    IF Len(parts) = 0 THEN "" ELSE parts[1].text \o ConcatTexts(Tail(parts))

ResponseText(content) == IF IsSet(content) THEN ConcatTexts(content[1]) ELSE ""

\* A flow's return value is either a string or an array of parts.
AsText(text) == [kind |-> "text", text |-> text]
AsParts(parts) == [kind |-> "parts", parts |-> parts]

\* return response.message?.content || "No response generated."
\* (an array, empty or not, is truthy)
LegacyReturnValue(content) ==
    IF TruthyObj(content) THEN AsParts(content[1]) ELSE AsText(Fallback)

LegacyIdle ==
    [pc |-> "idle", text |-> "", docs |-> << >>, content |-> None, returned |-> None,
     failedAt |-> ""]

LegacyFrame ==
    UNCHANGED <<tables, lastCall, CHAT_HISTORY, chats, messages, journal, flowReply, conn,
                users, database, pages>>

\* The flow is invoked: const docs = await ai.retrieve(...)
LegacyReceive(s) ==
    /\ req[s].pc \in {"idle", "done", "failed"}
    /\ served < MaxRequests
    /\ \E text \in Texts :
          req' = [req EXCEPT ![s] = [LegacyIdle EXCEPT !.pc = "retrieve", !.text = text]]
    /\ served' = served + 1
    /\ LegacyFrame

\* docs arrive: const response = await ai.generate(...)
LegacyRetrieveReturns(s) ==
    /\ req[s].pc = "retrieve"
    /\ \E docs \in LegacyRetrieve :
          req' = [req EXCEPT ![s].pc = "generate", ![s].docs = docs]
    /\ UNCHANGED served
    /\ LegacyFrame

LegacyRetrieveThrows(s) ==
    /\ req[s].pc = "retrieve"
    /\ req' = [req EXCEPT ![s].pc = "failed", ![s].failedAt = "retrieve"]
    /\ UNCHANGED served
    /\ LegacyFrame

LegacyGenerateReturns(s) ==
    /\ req[s].pc = "generate"
    /\ \E content \in GeneratedContents :
          req' = [req EXCEPT ![s].pc = "done", ![s].content = content,
                             ![s].returned = Some(LegacyReturnValue(content))]
    /\ UNCHANGED served
    /\ LegacyFrame

LegacyGenerateThrows(s) ==
    /\ req[s].pc = "generate"
    /\ req' = [req EXCEPT ![s].pc = "failed", ![s].failedAt = "generate"]
    /\ UNCHANGED served
    /\ LegacyFrame

InitLegacy ==
    /\ \E T \in BoundedSubsets(PagedRows, MaxRows) :
          tables = [c \in Corpora |->
                      IF c = "documents" THEN {AsDocumentRow(row) : row \in T} ELSE T]
    /\ lastCall = NoCall
    /\ req = [s \in {1} |-> LegacyIdle]
    /\ CHAT_HISTORY = << >>
    /\ chats = {}
    /\ messages = << >>
    /\ served = 0
    /\ journal = NoJournal
    /\ flowReply = None
    /\ conn = NoTransaction
    /\ users = {}
    /\ database = Ready
    /\ pages = NoPages

NextLegacy ==
    \/ \E s \in Slots : LegacyReceive(s)
    \/ \E s \in Slots : LegacyRetrieveReturns(s)
    \/ \E s \in Slots : LegacyRetrieveThrows(s)
    \/ \E s \in Slots : LegacyGenerateReturns(s)
    \/ \E s \in Slots : LegacyGenerateThrows(s)

SpecLegacy == InitLegacy /\ [][NextLegacy]_vars

(***************************************************************************)
(* Pipeline claims.                                                        *)
(***************************************************************************)
SameLetter(a, b) == a = b \/ <<a, b>> \in Alphabet \/ <<b, a>> \in Alphabet

\* word occurs in text when upper and lower case are not told apart.
ContainsIgnoringCase(text, word) ==
    \E offset \in 0..(Len(text) - Len(word)) :
        \A j \in 1..Len(word) : SameLetter(text[offset + j], word[j])

\* The words detectDocumentType looks for to pick a corpus.
RecognisedWords == {W_criminal, W_civil, W_constitution}

\* The classifier has just answered in slot s.
Classified(s) == IsSet(req[s].response)

\* C6: a classifier response containing both "criminal" and "procedure", in any
\* letter case, yields the criminal_procedure tag, never the plain criminal tag,
\* and the flow selects the criminal-procedure retriever.
C6_ProcedureBeforeCriminal ==
    \A s \in Slots :
        ( /\ Classified(s)
          /\ ContainsIgnoringCase(req[s].response[1], W_criminal)
          /\ ContainsIgnoringCase(req[s].response[1], W_procedure) )
        => /\ req[s].documentType = "criminal_procedure"
           /\ req[s].selectedRetriever = "criminalProcedureRetriever"
           /\ req[s].pc = "retrieve"

\* The classifier answered "PROCEDURE (Criminal)": both words, procedure first,
\* not in lower case.
C6_Witness ==
    \E s \in Slots :
        /\ Classified(s)
        /\ ContainsIgnoringCase(req[s].response[1], W_criminal)
        /\ ContainsIgnoringCase(req[s].response[1], W_procedure)
        /\ req[s].response[1][1] = "P"
        /\ req[s].selectedRetriever = "criminalProcedureRetriever"

\* C7: an empty response, and any response with none of the tag words, gives
\* the none tag; the request then makes no retrieval call and hands an empty
\* passage sequence to generation.
C7_EmptyOrUnrecognisedIsNone ==
    \A s \in Slots :
        /\ ( /\ Classified(s)
             /\ \A word \in RecognisedWords :
                   ~ContainsIgnoringCase(req[s].response[1], word) )
           => /\ req[s].documentType = "none"
              /\ req[s].retrieveCalls = 0
              /\ req[s].docs = << >>
        /\ ( req[s].documentType = "none" /\ IsSet(req[s].generateCall) )
           => /\ req[s].retrieveCalls = 0
              /\ req[s].generateCall[1].docs = << >>

\* C8: a classification call that errors does not abort the request.
C8_ClassificationErrorAbsorbed ==
    \A s \in Slots : ~(req[s].pc = "failed" /\ req[s].failedAt = "classify")

\* C9: when a stage of an unauthenticated request throws, the history of its
\* conversation is what it was before the request.
C9_FailureLeavesHistoryUnchanged ==
    \A s \in Slots :
        ( req[s].pc = "failed" /\ ~IsSet(req[s].userId) )
        => HistoryOf(CHAT_HISTORY, req[s].chatroomId) = req[s].historyBefore

\* C10: a request with a userId never reads or writes CHAT_HISTORY, and a
\* request without one never calls the persistent chat store.
C10_ModesMutuallyExclusive ==
    \A s \in Slots :
        /\ IsSet(req[s].userId) => ~req[s].memoryTouched
        /\ ~IsSet(req[s].userId) => req[s].storeCalls = 0

(***************************************************************************)
(* Claims about history, the reply and the order of the stages.            *)
(***************************************************************************)
IsPrefix(a, b) == Len(a) <= Len(b) /\ \A i \in 1..Len(a) : a[i] = b[i]

\* C11: for a request that carries a userId, the transcript handed to the
\* generation call starts with the turns of that chat that were persisted
\* before the request, in their order.
C11_HistoryFromDurableStorage ==
    \A s \in Slots :
        ( /\ IsSet(req[s].userId)
          /\ IsSet(req[s].generateCall) )
        => IsPrefix(req[s].persistedBefore, req[s].generateCall[1].messages)

\* The text a caller reads in a flow's return value.
ReturnedText(value) ==
    IF value.kind = "text" THEN value.text ELSE ConcatTexts(value.parts)

\* C12: when the generation call returns empty text the flow returns the
\* fallback string "No response generated."; the text returned by a request
\* that completes is never empty.  Stated of the first autonomousAIFlow.
C12_FallbackForEmptyText ==
    \A s \in Slots :
        req[s].pc = "done" =>
            /\ ReturnedText(req[s].returned[1]) # ""
            /\ ResponseText(req[s].content) = "" => req[s].returned[1] = AsText(Fallback)

\* C12 for the current autonomousAIFlow: return response.text || fallback.
C12_CurrentFlowFallback ==
    \A s \in Slots :
        req[s].pc = "done" =>
            /\ req[s].returned[1] # ""
            /\ req[s].responseText[1] = "" => req[s].returned[1] = Fallback

\* The exchanges of the unauthenticated requests that returned on conversation c.
ExchangesOn(c) == SelectSeq(journal.exchanges, LAMBDA e : e.chatroomId = c)

\* A request on conversation c is between its receipt and its return.
InFlight(c) ==
    \E s \in Slots : req[s].pc \notin {"idle", "done", "failed"} /\ req[s].chatroomId = c

\* User turn then model turn for each exchange, in the order of the requests.
TranscriptOf(exchanges) ==
    [i \in 1..(2 * Len(exchanges)) |->
        IF i % 2 = 1
        THEN [role |-> "user", content |-> exchanges[(i + 1) \div 2].text]
        ELSE [role |-> "model", content |-> exchanges[i \div 2].generated]]

\* C13: after n sequential successful unauthenticated requests on a conversation
\* that started empty (and no other request on it), getChatHistory returns
\* exactly the 2n turns user, model, user, model, ... with the submitted and
\* the generated texts; a conversation no request ran on has an empty history.
C13_SequentialHistory ==
    \A c \in ChatroomIds :
        c \notin journal.disturbed /\ ~InFlight(c) =>
            getChatHistory(CHAT_HISTORY, c) = TranscriptOf(ExchangesOn(c))

\* Two requests returned on c1, none ran on c2.
C13_Witness ==
    /\ Len(ExchangesOn("c1")) = 2
    /\ "c1" \notin journal.disturbed
    /\ ~InFlight("c1")
    /\ ExchangesOn("c1")[1].generated = "Hi"
    /\ getChatHistory(CHAT_HISTORY, "c2") = << >>

\* C14: the stages of a request run in the order Received, Corrected,
\* Classified, Retrieved, Assembled, Generated, then Persisted or Cached:
\* the chat store and the in-memory table are written only once generation has
\* returned, retrieval is attempted only after a tag other than none, generation
\* is called only after the earlier stages returned, and a request in which a
\* stage after classification threw ends failed, returning no text.
C14_StagesInOrder ==
    \A s \in Slots :
        LET r == req[s]
        IN  /\ (r.memoryTouched \/ r.storeCalls > 0) => IsSet(r.responseText)
            /\ r.retrieveCalls > 0 =>
                   r.classifyCalls = 1 /\ r.documentType \notin {"", "none"}
            /\ r.classifyCalls > 0 => r.grammarCalls = 1 /\ r.refinedPrompt # ""
            /\ r.generateCalls > 0 => r.classifyCalls = 1 /\ r.documentType # ""
            /\ r.pc = "done" => IsSet(r.responseText) /\ r.swallowed = 0
            /\ r.pc = "failed" => ~IsSet(r.returned)

\* The corpus table each tag names.
CorpusOfTag(tag) ==
    CASE tag = "constitution" -> "documents"
      [] tag = "criminal" -> "criminal_code"
      [] tag = "civil" -> "civil_code"
      [] tag = "criminal_procedure" -> "criminal_procedure"

\* Every document comes from a row of corpus c and from no row of another corpus.
DrawnFrom(docs, c) ==
    \A i \in 1..Len(docs) :
        /\ \E row \in tables[c] : DocumentsFromRows(<<row>>)[1] = docs[i]
                                  \/ ("page_number" \in DOMAIN row
                                      /\ DocumentsFromPagedRows(<<row>>)[1] = docs[i])
        /\ \A other \in Corpora \ {c} : \A row \in tables[other] : ~Matches(docs[i], row)

\* C15: retrieval searches the corpus named by the tag detectDocumentType
\* returned and no other: the retriever awaited is the one that queries that
\* table, the documents handed on all come from it, and a request searches at
\* most once.
C15_CorpusMatchesTag ==
    \A s \in Slots :
        req[s].retrieveCalls > 0 =>
            /\ req[s].retrieveCalls = 1
            /\ Table(req[s].selectedRetriever) = tables[CorpusOfTag(req[s].documentType)]
            /\ DrawnFrom(req[s].docs, CorpusOfTag(req[s].documentType))

\* A request tagged criminal has received passages of the criminal code.
C15_Witness ==
    \E s \in Slots :
        /\ req[s].documentType = "criminal"
        /\ Len(req[s].docs) = 2
        /\ DrawnFrom(req[s].docs, "criminal_code")
        /\ req[s].pc = "generate"

(***************************************************************************)
(* Claims about the similarity search, over the last retriever invocation. *)
(***************************************************************************)
\* The limit the retriever passed to its search: options?.k || 5.
SearchLimit == IF TruthyNum(CallOptions.k) THEN CallOptions.k[1] ELSE DefaultLimit

\* C16: a search with limit L over a corpus of n rows returns exactly
\* min(L, n) rows: none for an empty corpus, 3 for L = 5 and n = 3; without a
\* requested count the limit is 5.
C16_SearchReturnsMinOfLimitAndRows ==
    Called =>
        LET n == Cardinality(Table(lastCall.retriever))
        IN  /\ Len(lastCall.results) = IF SearchLimit <= n THEN SearchLimit ELSE n
            /\ n = 0 => lastCall.results = << >>
            /\ ~IsSet(CallOptions.k) => SearchLimit = 5
            /\ (SearchLimit = 5 /\ n = 3) => Len(lastCall.results) = 3

\* The default limit of 5 over a corpus of 3 rows gave 3 rows.
C16_Witness ==
    /\ Called
    /\ ~IsSet(CallOptions.k)
    /\ Cardinality(Table(lastCall.retriever)) = 3
    /\ Len(lastCall.results) = 3

NonIncreasing(scores) ==
    \A i, j \in 1..Len(scores) : i < j => scores[i] >= scores[j]

ReadFlowStep == served' = served + 1 /\ req' = req

\* C18: the in-memory transcript of every conversation is append-only: each
\* step of autonomousAIFlow, getChatHistory and getConversationList leaves the
\* history of every conversation a prefix of its history afterwards, no
\* conversation disappears, and the two read flows leave the table as it was.
C18_AppendOnly ==
    [][ /\ DOMAIN CHAT_HISTORY \subseteq DOMAIN CHAT_HISTORY'
        /\ \A c \in ChatroomIds :
              IsPrefix(HistoryOf(CHAT_HISTORY, c), HistoryOf(CHAT_HISTORY', c))
        /\ ReadFlowStep => CHAT_HISTORY' = CHAT_HISTORY ]_vars

\* A second request has put its user turn after the two turns of the first.
C18_Witness ==
    \E c \in ChatroomIds :
        /\ Len(HistoryOf(CHAT_HISTORY, c)) >= 3
        /\ HistoryOf(CHAT_HISTORY, c)[3].role = "user"

\* C19: within one request the grammar call, the classification call, the
\* retrieval (embedding and search) call and the generation call are each
\* issued at most once, and a request in which retrieval or generation failed
\* has ended failed: no second attempt, no text returned, no model turn stored.
C19_NoRetries ==
    \A s \in Slots :
        LET r == req[s]
        IN  /\ r.grammarCalls <= 1
            /\ r.classifyCalls <= 1
            /\ r.retrieveCalls <= 1
            /\ r.generateCalls <= 1
            /\ r.failedAt \in {"retrieve", "generate"} =>
                  /\ r.pc = "failed"
                  /\ ~IsSet(r.returned)
                  /\ ~IsSet(r.responseText)
                  /\ r.failedAt = "retrieve" => r.generateCalls = 0 /\ r.docs = << >>

\* Retrieval returned and the one generation call then failed.
C19_Witness ==
    \E s \in Slots :
        /\ req[s].pc = "failed"
        /\ req[s].failedAt = "generate"
        /\ req[s].retrieveCalls = 1
        /\ req[s].generateCalls = 1

(***************************************************************************)
(* SpecChatService: the HTTP handlers call ChatService concurrently.  One  *)
(* action per Database.query that completes; the queries of all callers    *)
(* run on the one connection, in the order they are sent.                  *)
(***************************************************************************)
PageLimit == 50     \* getChatMessages(chatId, userId, limit = 50, offset = 0)

CallSlots == {1, 2}
StoreUsers == {"u1", "u2"}
StoreChatIds == {"c1", "c2"}

\* The chats and messages the users made before the calls that are followed.
StoreChats ==
    {[id |-> "c1", user_id |-> "u1", title |-> <<"Hello", "">>, updated |-> 0,
      generated |-> FALSE],
     [id |-> "c2", user_id |-> "u2", title |-> <<"Land law", "">>, updated |-> 0,
      generated |-> FALSE]}

StoreMessages == <<[chat_id |-> "c1", sender |-> "user", content |-> "Hello"]>>

Operations ==
    {"createChat", "getChatById", "getChatWithMessages", "getChatMessages", "addMessage",
     "updateChatTitle", "deleteChat"}

NewTitle == <<"Renamed", "">>
Denied == "Chat not found or access denied"
QueryError == "query error"

\* What a call resolves to: null, a chat, a chat with its messages, messages, or nothing.
NullReply == [kind |-> "null", chat |-> None, messages |-> << >>]
VoidReply == [kind |-> "void", chat |-> None, messages |-> << >>]
ChatReply(chat) == [kind |-> "chat", chat |-> Some(chat), messages |-> << >>]
ChatWithMessagesReply(chat, rows) ==
    [kind |-> "chatWithMessages", chat |-> Some(chat), messages |-> rows]
MessagesReply(rows) == [kind |-> "messages", chat |-> None, messages |-> rows]

IdleCall ==
    [pc |-> "idle", op |-> "", chatId |-> "", userId |-> "", chat |-> None, reply |-> None,
     error |-> ""]

ServiceFrame ==
    UNCHANGED <<tables, lastCall, CHAT_HISTORY, journal, flowReply, users, database, pages>>

Returns(s, r, reply) ==
    req' = [req EXCEPT ![s] = [r EXCEPT !.pc = "returned", !.reply = Some(reply)]]

Throws(s, r, error) ==
    req' = [req EXCEPT ![s] = [r EXCEPT !.pc = "threw", !.reply = None, !.error = error]]

\* Inside try { ... } catch { ROLLBACK; throw error }: the error goes to the catch.
Caught(s, r, error) ==
    req' = [req EXCEPT ![s] = [r EXCEPT !.pc = "rollback", !.reply = None, !.error = error]]

\* In an aborted transaction every statement but COMMIT and ROLLBACK fails.
StatementFails == conn.status = "aborted"

\* A statement that fails inside a transaction aborts it.
ConnAfterError == IF conn.status = "open" THEN [conn EXCEPT !.status = "aborted"] ELSE conn

\* The first Database.query each operation sends.
FirstQuery(op) ==
    CASE op = "createChat" -> "insertChat"
      [] op = "updateChatTitle" -> "updateTitle"
      [] op = "deleteChat" -> "begin"
      [] OTHER -> "selectChat"

\* A handler calls an operation of ChatService for an authenticated user.
CallChatService(s) ==
    /\ req[s].pc \in {"idle", "returned", "threw"}
    /\ served < MaxRequests
    /\ \E op \in Operations, chatId \in StoreChatIds, userId \in StoreUsers :
          req' = [req EXCEPT ![s] =
                    [IdleCall EXCEPT !.pc = FirstQuery(op), !.op = op,
                                     !.chatId = chatId, !.userId = userId]]
    /\ served' = served + 1
    /\ UNCHANGED <<chats, messages, conn>>
    /\ ServiceFrame

\* SELECT ... FROM chats WHERE id = $1 AND user_id = $2 completes: the
\* ownership check of getChatById, and what each operation does with it.
SelectChat(s) ==
    /\ req[s].pc = "selectChat"
    /\ LET r == req[s]
           found == getChatById(r.chatId, r.userId)
       IN  IF StatementFails
           THEN IF r.op = "deleteChat"
                THEN Caught(s, r, QueryError)
                ELSE Throws(s, r, QueryError)
           ELSE IF found = {}
           THEN CASE r.op \in {"getChatById", "getChatWithMessages"} ->
                        Returns(s, r, NullReply)
                  [] r.op \in {"getChatMessages", "addMessage"} ->
                        Throws(s, r, Denied)
                  [] r.op = "deleteChat" ->
                        Caught(s, r, Denied)
           ELSE LET chat == CHOOSE c \in found : TRUE
                IN  CASE r.op = "getChatById" ->
                            Returns(s, r, ChatReply(chat))
                      [] r.op \in {"getChatWithMessages", "getChatMessages"} ->
                            req' = [req EXCEPT ![s] = [r EXCEPT !.pc = "selectMessages",
                                                                !.chat = Some(chat)]]
                      [] r.op = "addMessage" ->
                            req' = [req EXCEPT ![s].pc = "begin"]
                      [] r.op = "deleteChat" ->
                            req' = [req EXCEPT ![s].pc = "deleteMessages"]
    /\ UNCHANGED <<chats, messages, conn, served>>
    /\ ServiceFrame

\* SELECT ... FROM messages WHERE chat_id = $1 ORDER BY created_at completes.
SelectMessages(s) ==
    /\ req[s].pc = "selectMessages"
    /\ LET r == req[s]
           rows == SelectSeq(messages, LAMBDA m : m.chat_id = r.chatId)
       IN  IF StatementFails
           THEN Throws(s, r, QueryError)
           ELSE IF r.op = "getChatWithMessages"
           THEN Returns(s, r, ChatWithMessagesReply(r.chat[1], rows))
           ELSE \* ORDER BY created_at DESC LIMIT 50 OFFSET 0, then rows.reverse()
                Returns(s, r, MessagesReply(ReverseSeq(Take(ReverseSeq(rows), PageLimit))))
    /\ UNCHANGED <<chats, messages, conn, served>>
    /\ ServiceFrame

\* BEGIN completes: it opens a transaction, or only warns when one is open.
Begin(s) ==
    /\ req[s].pc = "begin"
    /\ IF StatementFails
       THEN /\ Throws(s, req[s], QueryError)
            /\ UNCHANGED conn
       ELSE /\ conn' = IF conn.status = "idle"
                       THEN [status |-> "open", chats |-> chats, messages |-> messages,
                             pages |-> pages.rows]
                       ELSE conn
            /\ req' = [req EXCEPT ![s].pc = IF req[s].op = "addMessage"
                                            THEN "insertMessage"
                                            ELSE "selectChat"]
    /\ UNCHANGED <<chats, messages, served>>
    /\ ServiceFrame

\* INSERT INTO messages (chat_id, sender, content) ... RETURNING ... completes;
\* chat_id REFERENCES chats(id), so it fails when the chat row is gone.
InsertMessage(s) ==
    /\ req[s].pc = "insertMessage"
    /\ LET r == req[s]
           row == [chat_id |-> r.chatId, sender |-> "user", content |-> "Hi"]
       IN  IF StatementFails \/ ~\E c \in chats : c.id = r.chatId
           THEN /\ Caught(s, r, QueryError)
                /\ conn' = ConnAfterError
                /\ UNCHANGED messages
           ELSE /\ messages' = MessagesAfterAddMessage(r.chatId, "user", "Hi")
                /\ req' = [req EXCEPT ![s] = [r EXCEPT !.pc = "updateChat",
                                                        !.reply = Some(MessagesReply(<<row>>))]]
                /\ UNCHANGED conn
    /\ UNCHANGED <<chats, served>>
    /\ ServiceFrame

\* UPDATE chats SET updated_at = NOW() WHERE id = $1 completes.
UpdateChat(s) ==
    /\ req[s].pc = "updateChat"
    /\ IF StatementFails
       THEN /\ Caught(s, req[s], QueryError)
            /\ UNCHANGED chats
       ELSE /\ chats' = ChatsAfterAddMessage(req[s].chatId)
            /\ req' = [req EXCEPT ![s].pc = "commit"]
    /\ UNCHANGED <<messages, conn, served>>
    /\ ServiceFrame

\* COMMIT completes: it ends the open transaction, undoes an aborted one, and
\* only warns when there is none.  The operation then returns.
Commit(s) ==
    /\ req[s].pc = "commit"
    /\ IF conn.status = "aborted"
       THEN chats' = conn.chats /\ messages' = conn.messages
       ELSE UNCHANGED <<chats, messages>>
    /\ conn' = NoTransaction
    /\ IF req[s].op = "addMessage"
       THEN Returns(s, req[s], req[s].reply[1])
       ELSE Returns(s, req[s], VoidReply)
    /\ UNCHANGED served
    /\ ServiceFrame

\* ROLLBACK completes in a catch block: whatever transaction is open on the
\* connection is undone; the error is thrown on.
Rollback(s) ==
    /\ req[s].pc = "rollback"
    /\ IF conn.status \in {"open", "aborted"}
       THEN chats' = conn.chats /\ messages' = conn.messages
       ELSE UNCHANGED <<chats, messages>>
    /\ conn' = NoTransaction
    /\ Throws(s, req[s], req[s].error)
    /\ UNCHANGED served
    /\ ServiceFrame

\* DELETE FROM messages WHERE chat_id = $1 completes.
DeleteMessages(s) ==
    /\ req[s].pc = "deleteMessages"
    /\ IF StatementFails
       THEN /\ Caught(s, req[s], QueryError)
            /\ UNCHANGED messages
       ELSE /\ messages' = SelectSeq(messages, LAMBDA m : m.chat_id # req[s].chatId)
            /\ req' = [req EXCEPT ![s].pc = "deleteChatRow"]
    /\ UNCHANGED <<chats, conn, served>>
    /\ ServiceFrame

\* DELETE FROM chats WHERE id = $1 completes (messages go ON DELETE CASCADE).
DeleteChatRow(s) ==
    /\ req[s].pc = "deleteChatRow"
    /\ IF StatementFails
       THEN /\ Caught(s, req[s], QueryError)
            /\ UNCHANGED <<chats, messages>>
       ELSE /\ chats' = {c \in chats : c.id # req[s].chatId}
            /\ messages' = SelectSeq(messages, LAMBDA m : m.chat_id # req[s].chatId)
            /\ req' = [req EXCEPT ![s].pc = "commit"]
    /\ UNCHANGED <<conn, served>>
    /\ ServiceFrame

\* UPDATE chats SET title = $1 ... WHERE id = $2 AND user_id = $3 RETURNING ...
UpdateTitle(s) ==
    /\ req[s].pc = "updateTitle"
    /\ LET r == req[s]
           found == getChatById(r.chatId, r.userId)
       IN  IF StatementFails
           THEN Throws(s, r, QueryError) /\ UNCHANGED chats
           ELSE IF found = {}
           THEN Throws(s, r, Denied) /\ UNCHANGED chats
           ELSE LET updated == [(CHOOSE c \in found : TRUE) EXCEPT !.title = NewTitle,
                                                                  !.updated = 1]
                IN  /\ chats' = (chats \ found) \cup {updated}
                    /\ Returns(s, r, ChatReply(updated))
    /\ UNCHANGED <<messages, conn, served>>
    /\ ServiceFrame

\* INSERT INTO chats (user_id, title) VALUES ($1, $2) RETURNING ... completes.
InsertChat(s) ==
    /\ req[s].pc = "insertChat"
    /\ IF StatementFails
       THEN Throws(s, req[s], QueryError) /\ UNCHANGED chats
       ELSE LET chat == createChat(req[s].userId, NewTitle)
            IN  /\ chats' = chats \cup {chat}
                /\ Returns(s, req[s], ChatReply(chat))
    /\ UNCHANGED <<messages, conn, served>>
    /\ ServiceFrame

InitChatService ==
    /\ tables = FlowTables
    /\ lastCall = NoCall
    /\ req = [s \in CallSlots |-> IdleCall]
    /\ CHAT_HISTORY = << >>
    /\ chats = StoreChats
    /\ messages = StoreMessages
    /\ served = 0
    /\ journal = NoJournal
    /\ flowReply = None
    /\ conn = NoTransaction
    /\ users = {}
    /\ database = Ready
    /\ pages = NoPages

NextChatService ==
    \/ \E s \in Slots : CallChatService(s)
    \/ \E s \in Slots : SelectChat(s)
    \/ \E s \in Slots : SelectMessages(s)
    \/ \E s \in Slots : Begin(s)
    \/ \E s \in Slots : InsertMessage(s)
    \/ \E s \in Slots : UpdateChat(s)
    \/ \E s \in Slots : Commit(s)
    \/ \E s \in Slots : Rollback(s)
    \/ \E s \in Slots : DeleteMessages(s)
    \/ \E s \in Slots : DeleteChatRow(s)
    \/ \E s \in Slots : UpdateTitle(s)
    \/ \E s \in Slots : InsertChat(s)

SpecChatService == InitChatService /\ [][NextChatService]_vars

\* The user who made the chat.
OwnerOf(chatId) == (CHOOSE c \in StoreChats : c.id = chatId).user_id

\* A call about a chat by a user who does not own it.
ForeignCall(r) ==
    /\ r.pc # "idle"
    /\ r.op \in Operations \ {"createChat"}
    /\ r.userId # OwnerOf(r.chatId)

\* The row of a chat and the messages in it.
ChatRows(rows, chatId) == {c \in rows : c.id = chatId}
ChatMessages(rows, chatId) == SelectSeq(rows, LAMBDA m : m.chat_id = chatId)

\* C20: no step of a call made by a user who does not own the chat changes
\* that chat's row (its title, its existence) or its messages, and such a call
\* ends returning null or throwing "Chat not found or access denied": it never
\* yields the chat, its title or its messages.
C20_OwnerOnly ==
    [][ \A s \in Slots :
           (req'[s] # req[s] /\ ForeignCall(req'[s])) =>
               /\ ChatRows(chats', req'[s].chatId) = ChatRows(chats, req'[s].chatId)
               /\ ChatMessages(messages', req'[s].chatId)
                     = ChatMessages(messages, req'[s].chatId)
               /\ req'[s].pc = "returned" => req'[s].reply = Some(NullReply)
               /\ req'[s].pc = "threw" => req'[s].error = Denied ]_vars

(***************************************************************************)
(* SpecConcurrent: two clients without a userId talk to the flow server on *)
(* the same conversation at the same time.  The flow is an async function  *)
(* on one event loop: a request runs from one await to the next without    *)
(* interruption, and the requests interleave at their awaits.              *)
(***************************************************************************)
ConcurrentSlots == {1, 2}
SharedConversation == "c1"

\* Each client sends its own text, which tells the clients' turns apart.
TextOfClient(s) == IF s = 1 THEN "Hello" ELSE "theft law"

ReceiveConcurrent(s) ==
    ReceiveFrom(s, {TextOfClient(s)}, {SharedConversation}, {None})

InitConcurrent ==
    /\ tables = FlowTables
    /\ lastCall = NoCall
    /\ req = [s \in ConcurrentSlots |-> Idle]
    /\ CHAT_HISTORY = << >>
    /\ chats = {}
    /\ messages = << >>
    /\ served = 0
    /\ journal = NoJournal
    /\ flowReply = None
    /\ conn = NoTransaction
    /\ users = {}
    /\ database = Ready
    /\ pages = NoPages

NextConcurrent ==
    \/ \E s \in Slots : ReceiveConcurrent(s)
    \/ \E s \in Slots : GrammarReturns(s)
    \/ \E s \in Slots : GrammarThrows(s)
    \/ \E s \in Slots : ClassifyReturns(s)
    \/ \E s \in Slots : ClassifyThrows(s)
    \/ \E s \in Slots : RetrieveReturns(s)
    \/ \E s \in Slots : RetrieveThrows(s)
    \/ \E s \in Slots : GenerateReturns(s)
    \/ \E s \in Slots : GenerateThrows(s)

SpecConcurrent == InitConcurrent /\ [][NextConcurrent]_vars

\* The request in slot s returned, and it had no userId.
Completed(s) == req[s].pc = "done" /\ ~IsSet(req[s].userId)

\* The turns of the request in slot s stand at positions i < j of the history.
TurnsAt(s, i, j) ==
    LET history == HistoryOf(CHAT_HISTORY, req[s].chatroomId)
    IN  /\ i < j
        /\ history[i] = Turn("user", req[s].text)
        /\ history[j] = Turn("model", req[s].responseText[1])

\* C21: under any interleaving of two concurrent unauthenticated requests on
\* the same conversation no turn is lost or overwritten: once both have
\* returned the history holds both user turns and both model turns, each
\* request's user turn before its model turn, the turns that were there
\* before are still there, and the history has two turns per returned request.
C21_NoLostTurn ==
    /\ \A s \in Slots :
          Completed(s) =>
              IsPrefix(req[s].historyBefore, HistoryOf(CHAT_HISTORY, req[s].chatroomId))
    /\ \A a, b \in Slots :
          (a # b /\ Completed(a) /\ Completed(b) /\ req[a].chatroomId = req[b].chatroomId) =>
              LET positions == DOMAIN HistoryOf(CHAT_HISTORY, req[a].chatroomId)
              IN  \E ua, ma \in positions :
                     /\ TurnsAt(a, ua, ma)
                     /\ \E ub, mb \in positions \ {ua, ma} : TurnsAt(b, ub, mb)
    /\ \A c \in ChatroomIds :
          (c \notin journal.disturbed /\ ~InFlight(c)) =>
              Len(HistoryOf(CHAT_HISTORY, c)) = 2 * Len(ExchangesOn(c))

\* Both requests were in flight together: the second client's user turn was
\* appended between the first client's user turn and its model turn.
C21_Witness ==
    /\ Completed(1) /\ Completed(2)
    /\ SharedConversation \notin journal.disturbed
    /\ Len(HistoryOf(CHAT_HISTORY, SharedConversation)) = 4
    /\ HistoryOf(CHAT_HISTORY, SharedConversation)[1] = Turn("user", TextOfClient(1))
    /\ HistoryOf(CHAT_HISTORY, SharedConversation)[2] = Turn("user", TextOfClient(2))
    /\ HistoryOf(CHAT_HISTORY, SharedConversation)[3].role = "model"
    /\ HistoryOf(CHAT_HISTORY, SharedConversation)[4].role = "model"

\* The call in slot s of r's next state is an addMessage call that ends in this step.
AddMessageEnds(s) ==
    /\ req[s].op = "addMessage"
    /\ req[s].pc \notin {"idle", "returned", "threw"}
    /\ req'[s].pc \in {"returned", "threw"}

\* updated_at of the chat was bumped.
Bumped(rows, chatId) == \E c \in rows : c.id = chatId /\ c.updated = 1

\* No other caller has had anything to do with the chat of the call in slot s.
OnlyCallOn(s) ==
    /\ served = Cardinality({t \in Slots : req[t].pc # "idle"})
    /\ \A t \in Slots \ {s} : req[t].pc = "idle" \/ req[t].chatId # req[s].chatId

\* The chat's owner is deleting the chat, or has deleted it.
Deleting(rows, chatId) ==
    \/ ChatRows(rows, chatId) = {}
    \/ \E t \in Slots :
          /\ req[t].op = "deleteChat" /\ req[t].chatId = chatId
          /\ req[t].userId = OwnerOf(chatId)
          /\ req[t].pc \notin {"idle", "threw"}

\* C22: addMessage is atomic under concurrent addMessage/deleteChat calls on
\* the application's connection: a call that returns has its message row in
\* the table and the chat's updated_at bumped; a call that throws leaves
\* neither (the chat and its messages are as before the call); a ROLLBACK of
\* one call never discards or half-applies the writes of a call that commits.
\* A chat that its owner deletes meanwhile is left out.
C22_AddMessageAtomic ==
    [][ \A s \in Slots :
           AddMessageEnds(s) =>
              /\ (req'[s].pc = "returned" /\ ~Deleting(chats', req[s].chatId)) =>
                    /\ \E i \in DOMAIN messages' :
                          MessagesReply(<<messages'[i]>>) = req'[s].reply[1]
                    /\ Bumped(chats', req[s].chatId)
              /\ (req'[s].pc = "threw" /\ OnlyCallOn(s)) =>
                    /\ ChatRows(chats', req[s].chatId) = ChatRows(StoreChats, req[s].chatId)
                    /\ ChatMessages(messages', req[s].chatId)
                          = ChatMessages(StoreMessages, req[s].chatId) ]_vars

\* The request in slot s had a userId and returned a generated, non-empty text.
PersistedRequest(s) ==
    /\ req[s].pc = "done"
    /\ Authenticated(req[s])
    /\ IsSet(req[s].responseText) /\ req[s].responseText[1] # ""

\* C23: after an authenticated request that completes with non-empty generated
\* text, the chat identified by chatroomId exists for the user and its last
\* two messages are the user's message and the model's message, also when the
\* chat did not exist before the request: the flow creates the chat and then
\* saves into it, so the chat named by chatroomId exists when the user's
\* message is saved; requests that name the same chatroomId create at most
\* one chat.
C23_AuthenticatedExchangePersisted ==
    /\ \A s \in Slots :
          req[s].pc = "addUserMessage" =>
              getChatById(req[s].chatroomId, req[s].userId[1]) # {}
    /\ \A s \in Slots :
          PersistedRequest(s) =>
              LET persisted == PersistedTurns(messages, req[s].chatroomId)
                  n == Len(persisted)
              IN  /\ getChatById(req[s].chatroomId, req[s].userId[1]) # {}
                  /\ n >= 2
                  /\ persisted[n - 1] = Turn("user", req[s].text)
                  /\ persisted[n] = Turn("model", req[s].responseText[1])
    /\ Cardinality({c \in chats : c.generated}) <= Cardinality(journal.disturbed)

\* The last turn of a conversation.
LastTurn(history, id) == HistoryOf(history, id)[Len(HistoryOf(history, id))]

\* C24: the text returned to the caller of an unauthenticated request is the
\* text of the model turn that the request appended to the in-memory history,
\* and getChatHistory never shows a model turn other than what the caller
\* received, in particular never an empty model turn.
C24_ReturnedTextIsModelTurn ==
    /\ \A s \in Slots :
          Completed(s) =>
              /\ HistoryOf(CHAT_HISTORY, req[s].chatroomId) # << >>
              /\ LastTurn(CHAT_HISTORY, req[s].chatroomId) = Turn("model", req[s].returned[1])
    /\ \A c \in ChatroomIds :
          c \notin journal.disturbed =>
              \A i \in DOMAIN getChatHistory(CHAT_HISTORY, c) :
                  getChatHistory(CHAT_HISTORY, c)[i].role = "model" =>
                      getChatHistory(CHAT_HISTORY, c)[i].content # ""

(***************************************************************************)
(* UserService and the authentication middleware.  A user row has the      *)
(* columns id, username, email (None for NULL), password_hash and          *)
(* is_active; ids are numbered in the order the rows were inserted.  A     *)
(* message is the sequence of its words.                                   *)
(***************************************************************************)
Usernames == {"ram", "sita"}
Passwords == {"secret", "guess"}
Emails == {None, Some(""), Some("ram@example.com")}

UsernameExists == <<"Username", "already", "exists">>
EmailExists == <<"Email", "already", "exists">>
InvalidLogin == <<"Invalid", "username", "or", "password">>
NoUpdates == <<"No", "updates", "provided">>
\* What pg reports when an INSERT or UPDATE violates a UNIQUE constraint.
DuplicateKey == <<"duplicate", "key", "value", "violates", "unique", "constraint">>
LookupFailed == <<"connection", "terminated">>

\* bcrypt.hash(password, 12) and bcrypt.compare(password, hash)
Hash(password) == <<"bcrypt", password>>
Compare(password, hash) == hash = Hash(password)

\* email || null, and if (email): an empty string counts as no email.
Truthy(o) == IsSet(o) /\ o[1] # ""
OrNull(o) == IF Truthy(o) THEN o ELSE None

\* error.message.includes(phrase), on words
IncludesWords(message, phrase) ==
    \E i \in 0..(Len(message) - Len(phrase)) :
        \A j \in 1..Len(phrase) : message[i + j] = phrase[j]

\* The catch blocks of POST /register and PUT /profile.
HttpStatusOfError(message) ==
    IF IncludesWords(message, <<"already", "exists">>) THEN 409 ELSE 500

\* username VARCHAR(100) UNIQUE NOT NULL, email VARCHAR(255) UNIQUE
ViolatesUnique(rows, row) ==
    \E other \in rows :
        /\ other.id # row.id
        /\ \/ other.username = row.username
           \/ IsSet(row.email) /\ other.email = row.email

NewUserRow(rows, username, email, password) ==
    [id |-> Cardinality(rows) + 1, username |-> username, email |-> OrNull(email),
     password_hash |-> Hash(password), is_active |-> TRUE]

\* The columns the queries return: everything but password_hash.
PublicUser(row) ==
    [id |-> row.id, username |-> row.username, email |-> row.email,
     is_active |-> row.is_active]

\* JwtService.generateToken({ userId, username }), and a token nobody signed.
TokenFor(row) == [kind |-> "signed", userId |-> row.id, username |-> row.username]
Garbage == [kind |-> "garbage", userId |-> 0, username |-> ""]
\* The empty string, which is what "Bearer ".substring(7) is.
EmptyToken == [kind |-> "empty", userId |-> 0, username |-> ""]

\* if (!token): null or the empty string
TokenPresent(o) == IsSet(o) /\ o[1].kind # "empty"

\* jwt.verify(token, SECRET): the payload, or it throws.
Verifies(token) == token.kind = "signed"

\* SELECT ... FROM users WHERE id = $1 AND is_active = true
getUserByIdUnfiltered(rows, userId) == {u \in rows : u.id = userId}

getUserById(rows, userId) == {u \in rows : u.id = userId /\ u.is_active}

\* The Authorization header of a request.
NoHeader == [scheme |-> "none", token |-> EmptyToken]
UserIdChoices == {1, 2, 3}
Headers ==
    {NoHeader, [scheme |-> "Basic", token |-> Garbage],
     [scheme |-> "Bearer", token |-> EmptyToken], [scheme |-> "Bearer", token |-> Garbage]}
    \cup {[scheme |-> "Bearer",
           token |-> [kind |-> "signed", userId |-> k, username |-> "ram"]] :
             k \in UserIdChoices}

\* authHeader.startsWith("Bearer ") ? authHeader.substring(7) : null
extractTokenFromHeader(header) ==
    IF header.scheme = "Bearer" THEN Some(header.token) ELSE None

UserOperations ==
    {"createUser", "loginUser", "getUserById", "updateUser", "deleteUser",
     "authenticateToken", "optionalAuth"}

IdleUserCall ==
    [pc |-> "idle", op |-> "", username |-> None, password |-> "", email |-> None,
     userId |-> 0, header |-> NoHeader, reply |-> None, error |-> << >>,
     statuses |-> << >>, nextCalls |-> 0, user |-> None,
     deleted |-> FALSE, usersBefore |-> {}]

UsersFrame ==
    UNCHANGED <<tables, lastCall, CHAT_HISTORY, chats, messages, journal, flowReply, conn,
                database, pages>>

Ended(r) == r.pc \in {"idle", "returned", "threw", "ended"}

UserReturns(s, r, reply) ==
    req' = [req EXCEPT ![s] = [r EXCEPT !.pc = "returned", !.reply = Some(reply)]]

UserThrows(s, r, error) ==
    req' = [req EXCEPT ![s] = [r EXCEPT !.pc = "threw", !.error = error]]

NoReply == [user |-> None, token |-> None]

\* res.status(401).json(...): one more response on the request; the middleware is done.
Sends401(r) == [r EXCEPT !.pc = "ended", !.statuses = Append(r.statuses, 401)]

\* next(): the request goes on to the route handler.
CallsNext(r) == [r EXCEPT !.pc = "ended", !.nextCalls = r.nextCalls + 1]

\* The middleware up to its first await: the header is read and the token
\* verified; without a token that verifies, authenticateToken answers 401
\* (lines 280-285, or the catch of 301-305) and optionalAuth calls next.
MiddlewareEntry(r) ==
    LET token == extractTokenFromHeader(r.header)
    IN  IF TokenPresent(token) /\ Verifies(token[1])
        THEN [r EXCEPT !.pc = "lookup"]
        ELSE IF r.op = "authenticateToken" THEN Sends401(r) ELSE CallsNext(r)

\* updateUser up to its first await: which column is checked first, if any.
UpdateEntry(r) ==
    IF Truthy(r.username) THEN [r EXCEPT !.pc = "checkUsername"]
    ELSE IF Truthy(r.email) THEN [r EXCEPT !.pc = "checkEmail"]
    ELSE [r EXCEPT !.pc = "threw", !.error = NoUpdates]

\* The calls the routes and the middleware chain make.
UserCalls ==
    {[IdleUserCall EXCEPT !.op = "createUser", !.pc = "selectUsername",
                          !.username = Some(n), !.password = "secret", !.email = e] :
        n \in Usernames, e \in Emails}
    \cup {[IdleUserCall EXCEPT !.op = "loginUser", !.pc = "selectLogin",
                               !.username = Some(n), !.password = p] :
             n \in Usernames, p \in Passwords}
    \cup {[IdleUserCall EXCEPT !.op = op, !.userId = k,
                               !.pc = IF op = "getUserById" THEN "selectUser" ELSE "deactivate"] :
             op \in {"getUserById", "deleteUser"}, k \in UserIdChoices}
    \cup {UpdateEntry([IdleUserCall EXCEPT !.op = "updateUser", !.userId = k,
                                           !.username = n, !.email = e]) :
             k \in UserIdChoices, n \in {None} \cup {Some(u) : u \in Usernames}, e \in Emails}
    \cup {MiddlewareEntry([IdleUserCall EXCEPT !.op = op, !.header = h]) :
             op \in {"authenticateToken", "optionalAuth"}, h \in Headers}

\* The user the call is about was deactivated before the call was made.
DeletedBefore(rows, r) ==
    \E u \in rows :
        /\ ~u.is_active
        /\ CASE r.op \in {"createUser", "loginUser"} -> r.username = Some(u.username)
             [] r.op \in {"authenticateToken", "optionalAuth"} ->
                    /\ TokenPresent(extractTokenFromHeader(r.header))
                    /\ Verifies(r.header.token)
                    /\ r.header.token.userId = u.id
             [] OTHER -> r.userId = u.id

CallUserService(s) ==
    /\ Ended(req[s])
    /\ served < MaxRequests
    /\ \E r \in UserCalls :
          req' = [req EXCEPT ![s] = [r EXCEPT !.deleted = DeletedBefore(users, r),
                                              !.usersBefore = users]]
    /\ served' = served + 1
    /\ UNCHANGED users
    /\ UsersFrame

\* createUser: SELECT id FROM users WHERE username = $1
SelectUsername(s) ==
    /\ req[s].pc = "selectUsername"
    /\ LET r == req[s]
       IN  IF \E u \in users : Some(u.username) = r.username
           THEN UserThrows(s, r, UsernameExists)
           ELSE req' = [req EXCEPT ![s].pc = IF Truthy(r.email) THEN "selectEmail"
                                             ELSE "insertUser"]
    /\ UNCHANGED <<users, served>>
    /\ UsersFrame

\* createUser: SELECT id FROM users WHERE email = $1
SelectEmail(s) ==
    /\ req[s].pc = "selectEmail"
    /\ IF \E u \in users : u.email = req[s].email
       THEN UserThrows(s, req[s], EmailExists)
       ELSE req' = [req EXCEPT ![s].pc = "insertUser"]
    /\ UNCHANGED <<users, served>>
    /\ UsersFrame

\* createUser: bcrypt.hash, then INSERT INTO users ... RETURNING ..., then the token.
InsertUser(s) ==
    /\ req[s].pc = "insertUser"
    /\ LET r == req[s]
           row == NewUserRow(users, r.username[1], r.email, r.password)
       IN  IF ViolatesUnique(users, row)
           THEN UserThrows(s, r, DuplicateKey) /\ UNCHANGED users
           ELSE /\ users' = users \cup {row}
                /\ UserReturns(s, r, [user |-> Some(PublicUser(row)),
                                      token |-> Some(TokenFor(row))])
    /\ UNCHANGED served
    /\ UsersFrame

\* loginUser: SELECT ... WHERE username = $1 AND is_active = true, then bcrypt.compare
SelectLogin(s) ==
    /\ req[s].pc = "selectLogin"
    /\ LET r == req[s]
           rows == {u \in users : Some(u.username) = r.username /\ u.is_active}
       IN  IF rows = {} \/ \A u \in rows : ~Compare(r.password, u.password_hash)
           THEN UserThrows(s, r, InvalidLogin)
           ELSE LET user == CHOOSE u \in rows : TRUE
                IN  req' = [req EXCEPT ![s] =
                              [r EXCEPT !.pc = "updateLogin",
                                        !.reply = Some([user |-> Some(PublicUser(user)),
                                                        token |-> Some(TokenFor(user))])]]
    /\ UNCHANGED <<users, served>>
    /\ UsersFrame

\* loginUser: UPDATE users SET last_login = NOW() WHERE id = $1, then the token.
UpdateLogin(s) ==
    /\ req[s].pc = "updateLogin"
    /\ UserReturns(s, req[s], req[s].reply[1])
    /\ UNCHANGED <<users, served>>
    /\ UsersFrame

\* UserService.getUserById called by a route.
SelectUser(s) ==
    /\ req[s].pc = "selectUser"
    /\ LET found == getUserById(users, req[s].userId)
       IN  IF found = {}
           THEN UserReturns(s, req[s], NoReply)
           ELSE UserReturns(s, req[s], [user |-> Some(PublicUser(CHOOSE u \in found : TRUE)),
                                        token |-> None])
    /\ UNCHANGED <<users, served>>
    /\ UsersFrame

\* updateUser: SELECT id FROM users WHERE username = $1 AND id != $2
CheckUsername(s) ==
    /\ req[s].pc = "checkUsername"
    /\ LET r == req[s]
       IN  IF \E u \in users : Some(u.username) = r.username /\ u.id # r.userId
           THEN UserThrows(s, r, UsernameExists)
           ELSE req' = [req EXCEPT ![s].pc = IF Truthy(r.email) THEN "checkEmail"
                                             ELSE "updateRow"]
    /\ UNCHANGED <<users, served>>
    /\ UsersFrame

\* updateUser: SELECT id FROM users WHERE email = $1 AND id != $2
CheckEmail(s) ==
    /\ req[s].pc = "checkEmail"
    /\ IF \E u \in users : u.email = req[s].email /\ u.id # req[s].userId
       THEN UserThrows(s, req[s], EmailExists)
       ELSE req' = [req EXCEPT ![s].pc = "updateRow"]
    /\ UNCHANGED <<users, served>>
    /\ UsersFrame

\* updateUser: UPDATE users SET ... WHERE id = $n RETURNING ...; result.rows[0]
UpdateRow(s) ==
    /\ req[s].pc = "updateRow"
    /\ LET r == req[s]
           found == {u \in users : u.id = r.userId}
       IN  IF found = {}
           THEN UserReturns(s, r, NoReply) /\ UNCHANGED users
           ELSE LET old == CHOOSE u \in found : TRUE
                    row == [old EXCEPT
                               !.username = IF Truthy(r.username) THEN r.username[1] ELSE @,
                               !.email = IF Truthy(r.email) THEN r.email ELSE @]
                IN  IF ViolatesUnique(users, row)
                    THEN UserThrows(s, r, DuplicateKey) /\ UNCHANGED users
                    ELSE /\ users' = (users \ {old}) \cup {row}
                         /\ UserReturns(s, r, [user |-> Some(PublicUser(row)),
                                               token |-> None])
    /\ UNCHANGED served
    /\ UsersFrame

\* deleteUser: UPDATE users SET is_active = false WHERE id = $1
Deactivate(s) ==
    /\ req[s].pc = "deactivate"
    /\ users' = {IF u.id = req[s].userId THEN [u EXCEPT !.is_active = FALSE] ELSE u :
                    u \in users}
    /\ UserReturns(s, req[s], NoReply)
    /\ UNCHANGED served
    /\ UsersFrame

\* An optionalAuth that answers 401 when the lookup rejects.
LookupCaughtStrict(r) == Sends401(r)

\* The catch block of each middleware: authenticateToken answers 401,
\* optionalAuth goes on without authentication.
LookupCaught(r) == IF r.op = "authenticateToken" THEN Sends401(r) ELSE CallsNext(r)

\* await UserService.getUserById(decoded.userId) completes or rejects in a middleware.
Lookup(s) ==
    /\ req[s].pc = "lookup"
    /\ \E rejects \in BOOLEAN :
          LET r == req[s]
              found == getUserById(users, r.header.token.userId)
          IN  IF rejects
              THEN req' = [req EXCEPT ![s] = LookupCaught([r EXCEPT !.error = LookupFailed])]
              ELSE IF found = {} \/ \A u \in found : ~u.is_active
              THEN req' = [req EXCEPT ![s] = IF r.op = "authenticateToken"
                                             THEN Sends401(r) ELSE CallsNext(r)]
              ELSE req' = [req EXCEPT ![s] = CallsNext([r EXCEPT !.user = Some(r.header.token)])]
    /\ UNCHANGED <<users, served>>
    /\ UsersFrame

(***************************************************************************)
(* SpecUsers: the routes call UserService and the middleware one call at a *)
(* time.  Before the calls that are followed the table holds nobody, one   *)
(* user, or one user and one whose account was deleted.                    *)
(***************************************************************************)
Ram == [id |-> 1, username |-> "ram", email |-> Some("ram@example.com"),
        password_hash |-> Hash("secret"), is_active |-> TRUE]
Sita == [id |-> 2, username |-> "sita", email |-> None,
         password_hash |-> Hash("secret"), is_active |-> FALSE]
InitialUsers == {{}, {Ram}, {Ram, Sita}}

InitUsersWith(slots) ==
    /\ tables = FlowTables
    /\ lastCall = NoCall
    /\ req = [s \in slots |-> IdleUserCall]
    /\ CHAT_HISTORY = << >>
    /\ chats = {}
    /\ messages = << >>
    /\ served = 0
    /\ journal = NoJournal
    /\ flowReply = None
    /\ conn = NoTransaction
    /\ users \in InitialUsers
    /\ database = Ready
    /\ pages = NoPages

InitUsers == InitUsersWith({1})

NextUsers ==
    \/ \E s \in Slots : CallUserService(s)
    \/ \E s \in Slots : SelectUsername(s)
    \/ \E s \in Slots : SelectEmail(s)
    \/ \E s \in Slots : InsertUser(s)
    \/ \E s \in Slots : SelectLogin(s)
    \/ \E s \in Slots : UpdateLogin(s)
    \/ \E s \in Slots : SelectUser(s)
    \/ \E s \in Slots : CheckUsername(s)
    \/ \E s \in Slots : CheckEmail(s)
    \/ \E s \in Slots : UpdateRow(s)
    \/ \E s \in Slots : Deactivate(s)
    \/ \E s \in Slots : Lookup(s)

SpecUsers == InitUsers /\ [][NextUsers]_vars

\* SpecUsersConcurrent: two calls at a time, interleaving at their awaits.
InitUsersConcurrent == InitUsersWith({1, 2})

SpecUsersConcurrent == InitUsersConcurrent /\ [][NextUsers]_vars

\* What a call about a deactivated user comes to.
RefusedAsDeleted(r) ==
    CASE r.op = "loginUser" -> r.pc = "threw" /\ r.error = InvalidLogin
      [] r.op = "createUser" -> r.pc = "threw" /\ r.error = UsernameExists
      [] r.op = "getUserById" -> r.pc = "returned" /\ r.reply = Some(NoReply)
      [] r.op = "authenticateToken" -> r.statuses = <<401>> /\ r.nextCalls = 0
      [] OTHER -> TRUE

\* C25: soft delete is effective and permanent: a deactivated user stays
\* deactivated whatever is called later, and a call made after deleteUser(u)
\* is refused: loginUser with u's username throws "Invalid username or
\* password", getUserById(u) returns null, authenticateToken answers 401 to a
\* token issued to u and never calls next, and createUser with u's username
\* throws "Username already exists".
C25_SoftDeletePermanent ==
    [][ /\ \A u \in users :
              ~u.is_active => \E v \in users' : v.id = u.id /\ ~v.is_active
        /\ \A s \in Slots :
              (Ended(req'[s]) /\ req'[s].pc # "idle" /\ req'[s].deleted) =>
                  RefusedAsDeleted(req'[s]) ]_vars

\* ram, whose account a deleteUser call deactivated, tried to log in with the
\* right password.
C25_Witness ==
    /\ [Ram EXCEPT !.is_active = FALSE] \in users
    /\ req[1].op = "loginUser"
    /\ req[1].username = Some("ram") /\ req[1].password = "secret"
    /\ req[1].deleted
    /\ req[1].pc = "threw"

\* No two rows share a username, and no two share an email that is not NULL.
UniqueUsers(rows) ==
    \A u, v \in rows :
        u.id # v.id =>
            /\ u.username # v.username
            /\ IsSet(u.email) => u.email # v.email

\* The createUser or updateUser call in slot s fails in this step, for
\* another reason than an empty update.
WriteRefused(s) ==
    /\ req[s].op \in {"createUser", "updateUser"}
    /\ req[s].pc # "threw"
    /\ req'[s].pc = "threw"
    /\ req'[s].error # NoUpdates

\* C26: after any sequence and interleaving of createUser and updateUser calls
\* no two user rows share a username and no two share a non-null email; a call
\* that would create a duplicate fails with an "already exists" error, which
\* the routes map to HTTP 409, and leaves the users table unchanged, also when
\* two calls with the same username race past the existence check.
C26_UniqueUsers ==
    [][ /\ UniqueUsers(users')
        /\ \A s \in Slots :
              WriteRefused(s) =>
                  /\ HttpStatusOfError(req'[s].error) = 409
                  /\ users' = users ]_vars


\* The request carries a Bearer token that verifies and names a row of the
\* users table that is active.
NamesActiveUser(rows, r) ==
    LET token == extractTokenFromHeader(r.header)
    IN  /\ TokenPresent(token)
        /\ Verifies(r.header.token)
        /\ \E u \in rows : u.id = r.header.token.userId /\ u.is_active

\* Neither middleware answers or hands the request on while it awaits the lookup.
SilentWhileLookingUp(r) ==
    r.pc = "lookup" => r.statuses = << >> /\ r.nextCalls = 0

\* optionalAuth: next() exactly once, no response, and req.user only for a
\* valid token of an active user.
OptionalAuthPasses(r) ==
    (r.op = "optionalAuth" /\ r.pc = "ended") =>
        /\ r.nextCalls = 1
        /\ r.statuses = << >>
        /\ IsSet(r.user) => NamesActiveUser(r.usersBefore, r) /\ r.user = Some(r.header.token)

\* C30 as stated: authenticateToken responds exactly once per request: it
\* calls next() if and only if a Bearer token is present, verifies and names a
\* user that exists and is active, and otherwise sends a single 401 and never
\* calls next(); optionalAuth calls next() exactly once for every input and
\* sets req.user only when the token is valid and the user is active.
C30_RespondsExactlyOnce ==
    \A s \in Slots :
        LET r == req[s]
        IN  /\ SilentWhileLookingUp(r)
            /\ (r.op = "authenticateToken" /\ r.pc = "ended") =>
                  /\ Len(r.statuses) + r.nextCalls = 1
                  /\ r.nextCalls = 1 <=> NamesActiveUser(r.usersBefore, r)
                  /\ r.nextCalls = 0 => r.statuses = <<401>>
            /\ OptionalAuthPasses(r)

\* C30 amended: authenticateToken responds exactly once per request: it calls
\* next() if and only if a Bearer token is present, verifies, names a user
\* that exists and is active, and the lookup of that user did not reject; in
\* every other case, a rejected lookup included, it sends a single 401 and
\* never calls next().  optionalAuth calls next() exactly once for every
\* input and sets req.user only for a valid token of an active user.
C30_RespondsExactlyOnceUnlessLookupRejects ==
    \A s \in Slots :
        LET r == req[s]
        IN  /\ SilentWhileLookingUp(r)
            /\ (r.op = "authenticateToken" /\ r.pc = "ended") =>
                  /\ Len(r.statuses) + r.nextCalls = 1
                  /\ r.nextCalls = 1 <=>
                        (NamesActiveUser(r.usersBefore, r) /\ r.error # LookupFailed)
                  /\ r.nextCalls = 1 => r.user = Some(r.header.token)
                  /\ r.nextCalls = 0 => r.statuses = <<401>> /\ r.user = None
            /\ OptionalAuthPasses(r)

\* optionalAuth got ram's token, the lookup of ram rejected, and the request
\* went on to the route without a user.
C30_Witness ==
    /\ Ram \in users
    /\ req[1].op = "optionalAuth"
    /\ req[1].pc = "ended"
    /\ req[1].header.token = TokenFor(Ram)
    /\ req[1].error = LookupFailed
    /\ req[1].nextCalls = 1
    /\ req[1].user = None


(***************************************************************************)
(* SpecDatabase: the callers of Database.initialize, Database.query and    *)
(* Database.close.  The class is not initialized when the module is        *)
(* imported; initialize is called at import time and again by whoever      *)
(* needs the database, each call running up to its next await.             *)
(***************************************************************************)
NotInitialized == <<"Database", "not", "initialized.", "Call", "initialize()", "first.">>
ConnectFailed == <<"connect", "ECONNREFUSED">>
SetupFailed == <<"permission", "denied">>

IdleDatabaseCall == [pc |-> "idle", op |-> "", client |-> 0, error |-> << >>]

DatabaseFrame ==
    UNCHANGED <<tables, lastCall, CHAT_HISTORY, chats, messages, journal, flowReply, conn,
                users, pages>>

DatabaseCallEnds(s, outcome, error) ==
    req' = [req EXCEPT ![s] = [req[s] EXCEPT !.pc = outcome, !.error = error]]

\* client.query(...): one more statement handed to the client Database.instance names.
SendOn(db) ==
    [db EXCEPT !.clients[db.instance].sent = db.clients[db.instance].sent + 1]

\* if (Database.isInitialized) return;
AlreadyInitialized(db) == db.isInitialized

\* initialize() up to await Database.instance.connect(): nothing to do when
\* isInitialized is set, otherwise a new Client replaces Database.instance.
CallInitialize(s) ==
    /\ Ended(req[s])
    /\ served < MaxRequests
    /\ served' = served + 1
    /\ IF AlreadyInitialized(database)
       THEN /\ req' = [req EXCEPT ![s] = [IdleDatabaseCall EXCEPT !.op = "initialize",
                                                                  !.pc = "returned"]]
            /\ UNCHANGED database
       ELSE /\ database' = [database EXCEPT
                               !.clients = Append(database.clients,
                                                  [state |-> "new", sent |-> 0]),
                               !.instance = Len(database.clients) + 1]
            /\ req' = [req EXCEPT ![s] = [IdleDatabaseCall EXCEPT
                                             !.op = "initialize", !.pc = "connecting",
                                             !.client = Len(database.clients) + 1]]
    /\ DatabaseFrame

\* connect() resolved: setupDatabase starts and sends its first statement on
\* whatever client Database.instance names by now.
ConnectReturns(s) ==
    /\ req[s].pc = "connecting"
    /\ database' = SendOn([database EXCEPT !.clients[req[s].client].state = "connected",
                                           !.setups = database.setups + 1])
    /\ req' = [req EXCEPT ![s].pc = "settingUp"]
    /\ UNCHANGED served
    /\ DatabaseFrame

\* connect() rejected: the catch logs and rethrows; isInitialized stays false.
ConnectThrows(s) ==
    /\ req[s].pc = "connecting"
    /\ database' = [database EXCEPT !.clients[req[s].client].state = "failed",
                                    !.failures = database.failures + 1]
    /\ DatabaseCallEnds(s, "threw", ConnectFailed)
    /\ UNCHANGED served
    /\ DatabaseFrame

\* setupDatabase() resolved: Database.isInitialized = true.
SetupReturns(s) ==
    /\ req[s].pc = "settingUp"
    /\ database' = [database EXCEPT !.isInitialized = TRUE]
    /\ DatabaseCallEnds(s, "returned", << >>)
    /\ UNCHANGED served
    /\ DatabaseFrame

SetupThrows(s) ==
    /\ req[s].pc = "settingUp"
    /\ database' = [database EXCEPT !.failures = database.failures + 1]
    /\ DatabaseCallEnds(s, "threw", SetupFailed)
    /\ UNCHANGED served
    /\ DatabaseFrame

\* Database.query up to its await: the client getter throws before anything
\* is sent when isInitialized is false.
CallQuery(s) ==
    /\ Ended(req[s])
    /\ served < MaxRequests
    /\ served' = served + 1
    /\ IF ~database.isInitialized
       THEN /\ req' = [req EXCEPT ![s] = [IdleDatabaseCall EXCEPT !.op = "query",
                                                                  !.pc = "threw",
                                                                  !.error = NotInitialized]]
            /\ UNCHANGED database
       ELSE /\ database' = SendOn(database)
            /\ req' = [req EXCEPT ![s] = [IdleDatabaseCall EXCEPT
                                             !.op = "query", !.pc = "querying",
                                             !.client = database.instance]]
    /\ DatabaseFrame

QueryReturns(s) ==
    /\ req[s].pc = "querying"
    /\ DatabaseCallEnds(s, "returned", << >>)
    /\ UNCHANGED <<database, served>>
    /\ DatabaseFrame

QueryThrows(s) ==
    /\ req[s].pc = "querying"
    /\ DatabaseCallEnds(s, "threw", LookupFailed)
    /\ UNCHANGED <<database, served>>
    /\ DatabaseFrame

\* close() up to await Database.instance.end()
CallClose(s) ==
    /\ Ended(req[s])
    /\ served < MaxRequests
    /\ served' = served + 1
    /\ req' = [req EXCEPT ![s] = [IdleDatabaseCall EXCEPT
                                     !.op = "close", !.client = database.instance,
                                     !.pc = IF database.instance # 0 THEN "ending"
                                            ELSE "returned"]]
    /\ UNCHANGED database
    /\ DatabaseFrame

\* end() resolved: Database.isInitialized = false.
EndReturns(s) ==
    /\ req[s].pc = "ending"
    /\ database' = [database EXCEPT !.clients[req[s].client].state = "ended",
                                    !.isInitialized = FALSE,
                                    !.closes = database.closes + 1]
    /\ DatabaseCallEnds(s, "returned", << >>)
    /\ UNCHANGED served
    /\ DatabaseFrame

InitDatabase ==
    /\ tables = FlowTables
    /\ lastCall = NoCall
    /\ req = [s \in {1, 2} |-> IdleDatabaseCall]
    /\ CHAT_HISTORY = << >>
    /\ chats = {}
    /\ messages = << >>
    /\ served = 0
    /\ journal = NoJournal
    /\ flowReply = None
    /\ conn = NoTransaction
    /\ users = {}
    /\ database = Uninitialized
    /\ pages = NoPages

NextDatabase ==
    \/ \E s \in Slots : CallInitialize(s)
    \/ \E s \in Slots : ConnectReturns(s)
    \/ \E s \in Slots : ConnectThrows(s)
    \/ \E s \in Slots : SetupReturns(s)
    \/ \E s \in Slots : SetupThrows(s)
    \/ \E s \in Slots : CallQuery(s)
    \/ \E s \in Slots : QueryReturns(s)
    \/ \E s \in Slots : QueryThrows(s)
    \/ \E s \in Slots : CallClose(s)
    \/ \E s \in Slots : EndReturns(s)

SpecDatabase == InitDatabase /\ [][NextDatabase]_vars

\* Slot s makes a call of the given kind in this step.
DatabaseCalled(s, op) ==
    /\ Ended(req[s])
    /\ req'[s] # req[s]
    /\ req'[s].op = op

\* C27: Database.initialize does nothing if the database is already
\* initialized: for any number of initialize calls, overlapping ones
\* included, at most one client is created and the schema is set up once
\* (counting anew after a failed attempt or a close); and Database.query
\* issued before initialization has completed throws "Database not
\* initialized. Call initialize() first." without sending anything.
C27_InitializeOnce ==
    [][ /\ Len(database'.clients) <= 1 + database'.failures + database'.closes
        /\ database'.setups <= 1 + database'.failures + database'.closes
        /\ \A s \in Slots :
              /\ (DatabaseCalled(s, "initialize") /\ database.isInitialized) =>
                    database' = database /\ req'[s].pc = "returned"
              /\ (DatabaseCalled(s, "query") /\ ~database.isInitialized) =>
                    /\ req'[s].pc = "threw"
                    /\ req'[s].error = NotInitialized
                    /\ database' = database ]_vars


(***************************************************************************)
(* SpecPages: processCriminalCodeCSV and its two halves, called one at a   *)
(* time from the start-up script: Database.importCriminalCodeFromCsv       *)
(* replaces the rows of criminal_code, embedCriminalCodePages fills in the *)
(* embeddings that are NULL.  The imports of the other tables and the      *)
(* other embed functions differ in the table and the columns only.         *)
(***************************************************************************)
MaxRecords == 2     \* records in one CSV file

Digits == {"0", "1", "2", "3", "4", "5", "6", "7", "8", "9"}
DigitValue(c) ==
    CASE c = "0" -> 0 [] c = "1" -> 1 [] c = "2" -> 2 [] c = "3" -> 3 [] c = "4" -> 4
      [] c = "5" -> 5 [] c = "6" -> 6 [] c = "7" -> 7 [] c = "8" -> 8 [] c = "9" -> 9

\* The value of the digits a text starts with, from the value read so far.
RECURSIVE LeadingDigits(_, _)
LeadingDigits(text, value) ==
    IF text = << >> \/ Head(text) \notin Digits THEN value
    ELSE LeadingDigits(Tail(text), 10 * value + DigitValue(Head(text)))

\* parseInt(text, 10) of a trimmed field: the number its leading digits
\* spell, NaN (None) when it does not start with a digit.
parseInt(text) ==
    IF text = << >> \/ Head(text) \notin Digits THEN None
    ELSE Some(LeadingDigits(text, 0))

\* The "Page Number" and Text columns of the CSV files read.
PageNumberFields == {<<"1">>, <<"2", "a">>, <<"x">>, << >>}
CsvRecords ==
    {[pageNumber |-> n, text |-> "penal code"] : n \in PageNumberFields}
    \cup {[pageNumber |-> <<"1">>, text |-> ""]}
CsvFiles == UNION {[1..n -> CsvRecords] : n \in 0..MaxRecords}

\* if (!record["Page Number"] || !record.Text) continue;
Complete(record) == record.pageNumber # << >> /\ record.text # ""

\* The loop skips incomplete records without awaiting: the next record it
\* stops at, from position i on, or one past the end.
RECURSIVE NextComplete(_, _)
NextComplete(records, i) ==
    IF i > Len(records) \/ Complete(records[i]) THEN i
    ELSE NextComplete(records, i + 1)

InvalidInteger == <<"invalid", "input", "syntax", "for", "type", "integer">>
ReadFailed == <<"ENOENT:", "no", "such", "file">>

\* throw new Error(`Criminal code import failed: ${error.message}`)
ImportFailed(message) == <<"Criminal", "code", "import", "failed:">> \o message

IdlePagesCall ==
    [pc |-> "idle", op |-> "", records |-> << >>, index |-> 0, successCount |-> 0,
     selected |-> << >>, failures |-> 0, reply |-> None, error |-> << >>,
     rowsBefore |-> {}]

PagesFrame ==
    UNCHANGED <<tables, lastCall, CHAT_HISTORY, chats, messages, journal, flowReply,
                users, database>>

\* The statement the import sends next: the INSERT of the next complete
\* record, or COMMIT after the last.
ImportGoesOn(r, i) ==
    LET j == NextComplete(r.records, i)
    IN  [r EXCEPT !.index = j, !.pc = IF j > Len(r.records) THEN "commit" ELSE "insert"]

\* catch (error) { await Database.client.query("ROLLBACK"); ... }
ImportCaught(r, error) == [r EXCEPT !.pc = "rollback", !.error = error]

\* An import that sends no BEGIN: the connection stays in autocommit mode.
ConnWithoutBegin(c, rows) == c

\* BEGIN: opens a transaction that remembers the rows to go back to.
ConnAfterBegin(c, rows) ==
    IF c.status = "idle"
    THEN [status |-> "open", chats |-> chats, messages |-> messages, pages |-> rows]
    ELSE c

\* ROLLBACK, or a COMMIT of an aborted transaction: the rows as they were at BEGIN.
RowsAfterRollback(c, rows) ==
    IF c.status \in {"open", "aborted"} THEN c.pages ELSE rows

\* importCriminalCodeFromCsv up to BEGIN: the file is read and parsed; a
\* file that cannot be read makes the call throw before anything is sent.
CallImport(s) ==
    /\ Ended(req[s])
    /\ served < MaxRequests
    /\ served' = served + 1
    /\ \/ \E csv \in CsvFiles :
             req' = [req EXCEPT ![s] = [IdlePagesCall EXCEPT
                                           !.op = "import", !.pc = "begin",
                                           !.records = csv, !.rowsBefore = pages.rows]]
       \/ req' = [req EXCEPT ![s] = [IdlePagesCall EXCEPT
                                        !.op = "import", !.pc = "threw",
                                        !.error = ImportFailed(ReadFailed),
                                        !.rowsBefore = pages.rows]]
    /\ UNCHANGED <<pages, conn>>
    /\ PagesFrame

\* BEGIN completes, outside the inner try: when it rejects the call throws.
ImportBegin(s) ==
    /\ req[s].pc = "begin"
    /\ \/ /\ conn' = ConnAfterBegin(conn, pages.rows)
          /\ req' = [req EXCEPT ![s].pc = "count"]
       \/ /\ req' = [req EXCEPT ![s] = [req[s] EXCEPT !.pc = "threw",
                                                      !.error = ImportFailed(LookupFailed)]]
          /\ UNCHANGED conn
    /\ UNCHANGED <<pages, served>>
    /\ PagesFrame

\* SELECT COUNT(*) FROM criminal_code completes: DELETE follows when there
\* are rows, else the loop starts.
ImportCount(s) ==
    /\ req[s].pc = "count"
    /\ \/ /\ req' = [req EXCEPT ![s] = IF Cardinality(pages.rows) > 0
                                       THEN [req[s] EXCEPT !.pc = "delete"]
                                       ELSE ImportGoesOn(req[s], 1)]
          /\ UNCHANGED conn
       \/ /\ req' = [req EXCEPT ![s] = ImportCaught(req[s], LookupFailed)]
          /\ conn' = ConnAfterError
    /\ UNCHANGED <<pages, served>>
    /\ PagesFrame

\* DELETE FROM criminal_code completes.
ImportDelete(s) ==
    /\ req[s].pc = "delete"
    /\ \/ /\ pages' = [pages EXCEPT !.rows = {}]
          /\ req' = [req EXCEPT ![s] = ImportGoesOn(req[s], 1)]
          /\ UNCHANGED conn
       \/ /\ req' = [req EXCEPT ![s] = ImportCaught(req[s], LookupFailed)]
          /\ conn' = ConnAfterError
          /\ UNCHANGED pages
    /\ UNCHANGED served
    /\ PagesFrame

\* INSERT INTO criminal_code (page_number, content, metadata) completes: the
\* row gets the next id of the sequence and no embedding; page_number is
\* INTEGER NOT NULL, so a page number parseInt makes NaN of is rejected.
ImportInsert(s) ==
    /\ req[s].pc = "insert"
    /\ LET r == req[s]
           record == r.records[r.index]
           number == parseInt(record.pageNumber)
       IN  \/ /\ IsSet(number)
              /\ pages' = [rows |-> pages.rows \cup
                                      {[id |-> pages.serial + 1, page_number |-> number[1],
                                        content |-> record.text, embedding |-> None]},
                           serial |-> pages.serial + 1]
              /\ req' = [req EXCEPT ![s] =
                            ImportGoesOn([r EXCEPT !.successCount = r.successCount + 1],
                                         r.index + 1)]
              /\ UNCHANGED conn
           \/ /\ req' = [req EXCEPT ![s] =
                            ImportCaught(r, IF IsSet(number) THEN LookupFailed
                                            ELSE InvalidInteger)]
              /\ conn' = ConnAfterError
              /\ UNCHANGED pages
    /\ UNCHANGED served
    /\ PagesFrame

\* COMMIT completes and the call returns successCount, or COMMIT rejects.
ImportCommit(s) ==
    /\ req[s].pc = "commit"
    /\ \/ /\ pages' = [pages EXCEPT !.rows = IF conn.status = "aborted"
                                              THEN RowsAfterRollback(conn, pages.rows)
                                              ELSE pages.rows]
          /\ conn' = NoTransaction
          /\ req' = [req EXCEPT ![s] = [req[s] EXCEPT !.pc = "returned",
                                                      !.reply = Some(req[s].successCount)]]
       \/ /\ req' = [req EXCEPT ![s] = ImportCaught(req[s], LookupFailed)]
          /\ conn' = ConnAfterError
          /\ UNCHANGED pages
    /\ UNCHANGED served
    /\ PagesFrame

\* ROLLBACK completes in the catch; the error is thrown on and wrapped.
ImportRollback(s) ==
    /\ req[s].pc = "rollback"
    /\ pages' = [pages EXCEPT !.rows = RowsAfterRollback(conn, pages.rows)]
    /\ conn' = NoTransaction
    /\ req' = [req EXCEPT ![s] = [req[s] EXCEPT !.pc = "threw",
                                                !.error = ImportFailed(req[s].error)]]
    /\ UNCHANGED served
    /\ PagesFrame


\* ai.embed(...)[0].embedding, joined into the text of a vector.
Embed(content) == Some(<<"embedding of", content>>)

\* UPDATE criminal_code SET embedding = $1 WHERE id = $2
RowsAfterUpdate(rows, id, embedding) ==
    {IF p.id = id THEN [p EXCEPT !.embedding = embedding] ELSE p : p \in rows}

\* A SELECT without the WHERE embedding IS NULL.
PagesSelectedAll(rows) ==
    {pg \in [1..Cardinality(rows) -> rows] :
        \A i, j \in DOMAIN pg : i < j => pg[i] # pg[j] /\ pg[i].page_number <= pg[j].page_number}

\* SELECT ... FROM criminal_code WHERE embedding IS NULL ORDER BY page_number:
\* the results the query may give (rows with equal page_number in any order).
PagesSelected(rows) ==
    LET missing == {p \in rows : p.embedding = None}
    IN  {pg \in [1..Cardinality(missing) -> missing] :
            \A i, j \in DOMAIN pg :
                i < j => pg[i] # pg[j] /\ pg[i].page_number <= pg[j].page_number}

\* throw new Error(`Criminal code embedding failed: ${error.message}`)
EmbedFailed(message) == <<"Criminal", "code", "embedding", "failed:">> \o message

\* The loop goes to page i, or the call returns successCount after the last.
EmbedGoesOn(r, i) ==
    IF i > Len(r.selected)
    THEN [r EXCEPT !.index = i, !.pc = "returned", !.reply = Some(r.successCount)]
    ELSE [r EXCEPT !.index = i, !.pc = "embed"]

\* catch (error) { console.error(`Failed to embed page ...`) }: on to the next page.
PageFailed(r) == EmbedGoesOn([r EXCEPT !.failures = r.failures + 1], r.index + 1)

\* embedCriminalCodePages up to the SELECT: DB.initialize() has nothing to do.
CallEmbed(s) ==
    /\ Ended(req[s])
    /\ served < MaxRequests
    /\ served' = served + 1
    /\ req' = [req EXCEPT ![s] = [IdlePagesCall EXCEPT !.op = "embed", !.pc = "select",
                                                       !.rowsBefore = pages.rows]]
    /\ UNCHANGED <<pages, conn>>
    /\ PagesFrame

\* The SELECT completes: nothing to do, or the loop starts; when it rejects
\* the call throws.
EmbedSelect(s) ==
    /\ req[s].pc = "select"
    /\ \/ \E found \in PagesSelected(pages.rows) :
             req' = [req EXCEPT ![s] =
                        IF Len(found) = 0
                        THEN [req[s] EXCEPT !.pc = "returned", !.reply = Some(0)]
                        ELSE EmbedGoesOn([req[s] EXCEPT !.selected = found], 1)]
       \/ req' = [req EXCEPT ![s] = [req[s] EXCEPT !.pc = "threw",
                                                   !.error = EmbedFailed(LookupFailed)]]
    /\ UNCHANGED <<pages, conn, served>>
    /\ PagesFrame

\* ai.embed for the page at hand completes, or rejects and the page is skipped.
EmbedPage(s) ==
    /\ req[s].pc = "embed"
    /\ \/ req' = [req EXCEPT ![s].pc = "update"]
       \/ req' = [req EXCEPT ![s] = PageFailed(req[s])]
    /\ UNCHANGED <<pages, conn, served>>
    /\ PagesFrame

\* The UPDATE of the page at hand completes, or rejects and the page is skipped.
UpdatePage(s) ==
    /\ req[s].pc = "update"
    /\ LET r == req[s]
           page == r.selected[r.index]
       IN  \/ /\ pages' = [pages EXCEPT
                              !.rows = RowsAfterUpdate(pages.rows, page.id, Embed(page.content))]
              /\ req' = [req EXCEPT ![s] =
                            EmbedGoesOn([r EXCEPT !.successCount = r.successCount + 1],
                                        r.index + 1)]
           \/ /\ req' = [req EXCEPT ![s] = PageFailed(r)]
              /\ UNCHANGED pages
    /\ UNCHANGED <<conn, served>>
    /\ PagesFrame

\* The table before the calls that are followed: empty, or two pages of an
\* earlier import, one of them embedded.
EarlierPages ==
    [rows |-> {[id |-> 1, page_number |-> 1, content |-> "preamble",
                embedding |-> Some(<<"embedding of", "an earlier text">>)],
               [id |-> 2, page_number |-> 2, content |-> "offences", embedding |-> None]},
     serial |-> 2]

InitPages ==
    /\ tables = FlowTables
    /\ lastCall = NoCall
    /\ req = [s \in {1} |-> IdlePagesCall]
    /\ CHAT_HISTORY = << >>
    /\ chats = {}
    /\ messages = << >>
    /\ served = 0
    /\ journal = NoJournal
    /\ flowReply = None
    /\ conn = NoTransaction
    /\ users = {}
    /\ database = Ready
    /\ pages \in {NoPages, EarlierPages}

NextPages ==
    \/ \E s \in Slots : CallImport(s)
    \/ \E s \in Slots : ImportBegin(s)
    \/ \E s \in Slots : ImportCount(s)
    \/ \E s \in Slots : ImportDelete(s)
    \/ \E s \in Slots : ImportInsert(s)
    \/ \E s \in Slots : ImportCommit(s)
    \/ \E s \in Slots : ImportRollback(s)
    \/ \E s \in Slots : CallEmbed(s)
    \/ \E s \in Slots : EmbedSelect(s)
    \/ \E s \in Slots : EmbedPage(s)
    \/ \E s \in Slots : UpdatePage(s)

SpecPages == InitPages /\ [][NextPages]_vars

\* The rows are the complete records of the file, one row each, none embedded.
HoldsExactly(rows, records) ==
    LET complete == {i \in DOMAIN records : Complete(records[i])}
    IN  /\ \A p \in rows : p.embedding = None
        /\ \E row \in [complete -> rows] :
              /\ \A i, j \in complete : i # j => row[i] # row[j]
              /\ \A p \in rows : \E i \in complete : row[i] = p
              /\ \A i \in complete :
                    /\ parseInt(records[i].pageNumber) = Some(row[i].page_number)
                    /\ row[i].content = records[i].text

\* C28: an import replaces the table's contents as one transaction: when it
\* returns, the table holds exactly the valid records of the CSV, none of the
\* previous rows, and the count returned is the number of rows inserted; when
\* it throws, the table holds exactly the rows it held before the call.
C28_ImportIsOneTransaction ==
    \A s \in Slots :
        LET r == req[s]
        IN  /\ (r.op = "import" /\ r.pc = "returned") =>
                  /\ HoldsExactly(pages.rows, r.records)
                  /\ pages.rows \cap r.rowsBefore = {}
                  /\ r.reply = Some(Cardinality(pages.rows))
                  /\ conn = NoTransaction
            /\ (r.op = "import" /\ r.pc = "threw") =>
                  /\ pages.rows = r.rowsBefore
                  /\ conn.status # "open"

\* An import into the table of two pages deleted them, inserted a row, failed
\* on the next record and threw; the two pages are back.
C28_Witness ==
    /\ req[1].op = "import"
    /\ req[1].pc = "threw"
    /\ req[1].successCount = 1
    /\ req[1].rowsBefore = EarlierPages.rows
    /\ pages.rows = EarlierPages.rows
    /\ pages.serial = 3


\* The rows of the table that had no embedding when the call was made and
\* have one now.
NewlyEmbedded(r, rows) ==
    {p \in r.rowsBefore :
        /\ p.embedding = None
        /\ \E q \in rows : q.id = p.id /\ IsSet(q.embedding)}

\* A page was given up in this step: its request for an embedding or its
\* UPDATE rejected.
PageGivenUp(s) ==
    /\ req[s].op = "embed"
    /\ req'[s].failures = req[s].failures + 1

\* C29: embedCriminalCodePages processes only rows whose embedding is NULL
\* and never overwrites an existing embedding; a page whose embedding call
\* or update fails keeps embedding NULL and the loop continues with the next
\* page; the count returned is the number of rows that went from NULL to
\* embedded in this run; the run makes one pass over the selected pages; and
\* a run on a table a fully successful run has left returns 0 and changes
\* nothing.
C29_EmbedOnlyMissing ==
    [][ \A s \in Slots :
          LET r == req'[s]
          IN  r.op = "embed" =>
                /\ \A i \in DOMAIN r.selected :
                      r.selected[i] \in r.rowsBefore /\ r.selected[i].embedding = None
                /\ \A p \in r.rowsBefore : IsSet(p.embedding) => p \in pages'.rows
                /\ \A p \in pages'.rows :
                      \E q \in r.rowsBefore :
                          /\ q.id = p.id
                          /\ q.page_number = p.page_number /\ q.content = p.content
                /\ Cardinality(pages'.rows) = Cardinality(r.rowsBefore)
                /\ PageGivenUp(s) =>
                      /\ pages' = pages
                      /\ \E q \in pages.rows :
                            q.id = req[s].selected[req[s].index].id /\ q.embedding = None
                      /\ r.index = req[s].index + 1
                      /\ r.pc \in {"embed", "returned"}
                /\ r.successCount + r.failures = r.index - 1 \/ r.selected = << >>
                /\ r.pc = "returned" =>
                      /\ r.reply = Some(Cardinality(NewlyEmbedded(r, pages'.rows)))
                      /\ r.successCount + r.failures = Len(r.selected)
                      /\ r.failures = 0 => \A p \in pages'.rows : IsSet(p.embedding)
                      /\ (\A p \in r.rowsBefore : IsSet(p.embedding)) =>
                            r.reply = Some(0) /\ pages'.rows = r.rowsBefore ]_vars

\* A second run, made after a run that embedded the one page that lacked an
\* embedding, returned 0.
C29_Witness ==
    /\ served = 2
    /\ req[1].op = "embed"
    /\ req[1].pc = "returned"
    /\ req[1].reply = Some(0)
    /\ req[1].rowsBefore = pages.rows
    /\ \E p \in pages.rows : p.id = 2 /\ p.embedding = Embed("offences")
    /\ \E p \in pages.rows : p.id = 1 /\ p.embedding = Some(<<"embedding of", "an earlier text">>)

=============================================================================
